---- MODULE Spec2Model ----
(***************************************************************************)
(* The message pipeline of oso: the msg table (db/func.py), the atomic     *)
(* fetch-and-lock decorator with_pipe_lock, release_locks, the partial     *)
(* update / upsert builders, and the five stage cycles of models/agent.py  *)
(* and interfaces/reddit.py that are built on them.                        *)
(***************************************************************************)
EXTENDS Integers, Sequences, FiniteSets, TLC

VARIABLES
    store,        \* oso.msg: msg_id -> row
    now,          \* int(time.time())
    pc,           \* per worker: position inside its stage cycle
    stage,        \* per worker: the stage function it is running
    locked_msgs,  \* per worker: msg_id -> AppMsg returned by the claim
    work,         \* per worker: msg_id -> AppMsg being built by the stage logic
    failed,       \* per worker: msg_ids whose capability call returned None
    r,            \* per worker: results of the write-backs of the cycle
    claimed_at,   \* per worker: now_timestamp of its claim
    changed,      \* history: the cycle changed a field other than locked_at
    dbErr,        \* history: a statement of the cycle's write-back failed in the store
    relSince,     \* history: msg_ids of the batch released since the claim
    grants,       \* history: msg_id -> claim times not released since
    op,           \* history: the database call or the cycle that just ended
    loop          \* per service loop: its position, and the locks it held when cancelled

vars == <<store, now, pc, stage, locked_msgs, work, failed, r, claimed_at,
          changed, dbErr, relSince, grants, op, loop>>

-----------------------------------------------------------------------------
(* Bounds of the model *)

NumMsgs == 2          \* inbound messages the inbox can deliver
MaxTime == 3          \* the last second of the clock
Lookback == 3         \* the '1 week' lookback interval, in clock ticks
Limit == 2            \* the `limit` of the candidate queries
RaceMsgs == 1         \* messages the two racing workers compete for

(* Program constants *)

LockTimeout == 1      \* DBFunctions.__init__(lock_timeout_seconds = 1)
ThreadLimit == 3      \* get_thread_of_msgs(thread_limit = 3)

-----------------------------------------------------------------------------
(* Values *)

NULL == "NULL"        \* SQL NULL / Python None of a text or boolean column
NoTime == -1          \* SQL NULL / Python None of an integer column

Workers == {"A", "B"}
Senders == {"s1", "s2"}
Me == "me"
\* msg_id of the n-th message the inbox delivers
InboundId(n) == "m" \o ToString(n)
InboundIds == {InboundId(n) : n \in 1..NumMsgs}
\* the identity the send capability assigns to the reply to message m
ReplyRecordId(m) == "re:" \o m
AllIds == InboundIds \cup {ReplyRecordId(m) : m \in InboundIds}

IntFields == {"created_at", "locked_at"}
MsgFields == {"created_at", "source", "sender", "receiver", "is_receiver_me",
              "subject", "body", "classification", "reply_body", "reply_id",
              "summary", "images", "post_id"}
RowFields == MsgFields \cup {"locked_at"}

IsNull(f, v) == IF f \in IntFields THEN v = NoTime ELSE v = NULL
NullOf(f) == IF f \in IntFields THEN NoTime ELSE NULL

\* AppMsg(msg_id = id): every other field None
AppMsg(id) == [f \in MsgFields \cup {"msg_id"} |->
                 IF f = "msg_id" THEN id
                 ELSE IF f = "created_at" THEN NoTime ELSE NULL]

\* msg.model_dump(exclude_none=True) without msg_id
Present(msg) == {f \in MsgFields : ~IsNull(f, msg[f])}

EmptyRow == [f \in RowFields |-> NullOf(f)]

\* MsgClassification values
Classifications == {"instruction", "inquiry", "spam", "other", "story",
                    "banned", "illegal", "safe", "interesting", "boring"}

-----------------------------------------------------------------------------
(* MessageStore: partial update and upsert (db/func.py) *)

\* a None element of a list of messages
NoneMsg == [none |-> TRUE]

Min(a, b) == IF a < b THEN a ELSE b

\* mutant: the statement sets every column, also those the message leaves None
SetFieldsOverwrite(row, msg) ==
    [f \in RowFields |-> IF f \in MsgFields THEN msg[f] ELSE row[f]]

\* the fields the stages write
ResultFields == {"classification", "reply_body", "reply_id", "summary", "images", "post_id"}

\* mutant: the statement also resets the results the message does not carry
SetFieldsResetResults(row, msg) ==
    [f \in RowFields |-> IF f \in Present(msg) THEN msg[f]
                         ELSE IF f \in ResultFields THEN NULL ELSE row[f]]

\* UPDATE / DO UPDATE SET of the present fields on one row
SetFields(row, msg) ==
    [f \in RowFields |-> IF f \in Present(msg) THEN msg[f] ELSE row[f]]

\* _build_update_query: the fields of the SET clause; {} stands for (None, None)
BuildUpdateQuery(msg) == Present(msg)

\* mutant: the statement inserts the row when no row has the id
ExecUpdateCreates(st, msg) ==
    IF BuildUpdateQuery(msg) = {} THEN st
    ELSE [i \in DOMAIN st \cup {msg.msg_id} |->
            IF i # msg.msg_id THEN st[i]
            ELSE SetFields(IF i \in DOMAIN st THEN st[i] ELSE EmptyRow, msg)]

\* connection.execute of the UPDATE ... WHERE msg_id = $n
ExecUpdate(st, msg) ==
    IF BuildUpdateQuery(msg) = {} \/ msg.msg_id \notin DOMAIN st THEN st
    ELSE [st EXCEPT ![msg.msg_id] = SetFields(@, msg)]

\* mutant: on conflict the stored row is replaced by the inserted one
ExecUpsertNoMerge(st, msg) ==
    [i \in DOMAIN st \cup {msg.msg_id} |->
        IF i = msg.msg_id THEN SetFields(EmptyRow, msg) ELSE st[i]]

\* mutant: the INSERT names msg_id only; the fields are set on conflict
ExecUpsertBareInsert(st, msg) ==
    IF msg.msg_id \in DOMAIN st
    THEN [st EXCEPT ![msg.msg_id] = SetFields(@, msg)]
    ELSE [i \in DOMAIN st \cup {msg.msg_id} |->
            IF i = msg.msg_id THEN EmptyRow ELSE st[i]]

\* _build_upsert_query + execute: INSERT ... ON CONFLICT (msg_id) DO UPDATE SET / DO NOTHING
ExecUpsert(st, msg) ==
    IF msg.msg_id \in DOMAIN st
    THEN [st EXCEPT ![msg.msg_id] = SetFields(@, msg)]
    ELSE [i \in DOMAIN st \cup {msg.msg_id} |->
            IF i = msg.msg_id THEN SetFields(EmptyRow, msg) ELSE st[i]]

RECURSIVE ApplyAll(_, _, _)
\* the for loop of update_msgs / upsert_msgs inside one transaction
ApplyAll(st, msgs, upsert) ==
    IF msgs = <<>> THEN st
    ELSE ApplyAll(IF upsert THEN ExecUpsert(st, Head(msgs)) ELSE ExecUpdate(st, Head(msgs)),
                  Tail(msgs), upsert)

HasNone(msgs) == \E i \in DOMAIN msgs : msgs[i] = NoneMsg

\* the store fails no statement (0) or its first one (1)
StoreFails(dbFail) == IF dbFail THEN 1 ELSE 0

\* the position in the batch at which the for loop raises, 0 when it does not:
\* the first None element (AttributeError in the query builder) or the
\* statement failAt that the store fails; failAt > Len(msgs) is a failure of
\* the commit (of pool.acquire for an empty batch)
FirstFailure(msgs, failAt) ==
    LET bad == {i \in DOMAIN msgs : msgs[i] = NoneMsg}
                 \cup (IF failAt = 0 THEN {} ELSE {Min(failAt, Len(msgs) + 1)})
    IN  IF bad = {} THEN 0 ELSE CHOOSE k \in bad : \A j \in bad : k <= j

\* mutant: no transaction around the loop, every statement commits by itself
RollbackNothing(pre, cur) == cur

\* async with connection.transaction(): the exception leaves the block and
\* the writes executed so far (cur) are undone
Rollback(pre, cur) == pre

\* the transaction of update_msgs / upsert_msgs
Transaction(st, msgs, upsert, failAt) ==
    LET k == FirstFailure(msgs, failAt) IN
    IF k = 0 THEN [ok |-> TRUE, store |-> ApplyAll(st, msgs, upsert)]
    ELSE [ok |-> FALSE,
          store |-> Rollback(st, ApplyAll(st, SubSeq(msgs, 1, k - 1), upsert))]

\* mutant: a message without fields is executed as a statement and fails
update_msgs_strict(st, msgs, failAt) ==
    IF \E i \in DOMAIN msgs : msgs[i] # NoneMsg /\ BuildUpdateQuery(msgs[i]) = {}
    THEN [ok |-> FALSE, store |-> st]
    ELSE Transaction(st, msgs, FALSE, failAt)

\* update_msgs(msgs): a PostgresError of the store or the AttributeError of a
\* None element is caught, the transaction rolls back and False is returned
update_msgs(st, msgs, failAt) == Transaction(st, msgs, FALSE, failAt)

\* upsert_msgs(msgs)
upsert_msgs(st, msgs, failAt) == Transaction(st, msgs, TRUE, failAt)

\* mutant: the UPDATE has no WHERE clause
release_locks_all(st, msgs, dbFail) ==
    IF msgs = <<>> THEN [ok |-> TRUE, store |-> st]
    ELSE IF dbFail THEN [ok |-> FALSE, store |-> st]
    ELSE [ok |-> TRUE,
          store |-> [i \in DOMAIN st |-> [st[i] EXCEPT !.locked_at = NoTime]]]

\* mutant: the statement is executed, then the failure is reported
release_locks_unreported(st, msgs, dbFail) ==
    IF msgs = <<>> THEN [ok |-> TRUE, store |-> st]
    ELSE LET ids == {msgs[i].msg_id : i \in DOMAIN msgs} IN
         [ok |-> ~dbFail,
          store |-> [i \in DOMAIN st |->
                       IF i \in ids THEN [st[i] EXCEPT !.locked_at = NoTime] ELSE st[i]]]

\* release_locks(messages)
release_locks(st, msgs, dbFail) ==
    IF msgs = <<>> THEN [ok |-> TRUE, store |-> st]
    ELSE IF dbFail THEN [ok |-> FALSE, store |-> st]
    ELSE LET ids == {msgs[i].msg_id : i \in DOMAIN msgs} IN
         [ok |-> TRUE,
          store |-> [i \in DOMAIN st |->
                       IF i \in ids THEN [st[i] EXCEPT !.locked_at = NoTime] ELSE st[i]]]

-----------------------------------------------------------------------------
(* ClaimQueue: the candidate queries and with_pipe_lock (db/func.py) *)

Stages == {"classify", "reply", "summarize", "send", "share"}

\* the ex / any lists the stage functions pass (TEST_MODE not set)
ExSet(s) ==
    CASE s = "classify"  -> {"illegal", "banned", "instruction"}
      [] s = "reply"     -> {"illegal", "banned", "instruction"}
      [] s = "summarize" -> {"banned", "instruction"}
      [] OTHER           -> {}

AnySet(s) ==
    CASE s = "reply"     -> {"inquiry", "boring", "spam", "other"}
      [] s = "summarize" -> {"story"}
      [] OTHER           -> {}

\* the columns the msgs CTE of each query selects (besides msg_id)
Columns(s) ==
    CASE s = "classify"  -> {"body"}
      [] s = "reply"     -> {"sender", "receiver", "source"}
      [] s = "summarize" -> {"body"}
      [] s = "send"      -> {"subject", "sender", "body", "reply_body"}
      [] s = "share"     -> {"summary", "images"}

\* extract(epoch from current_timestamp - interval '{lookback}') < created_at
InWindow(row, t) == row.created_at # NoTime /\ t - Lookback < row.created_at

\* mutant: the ex CTE is empty, no sender is excluded
ExSendersNone(st, s, t) == {}

\* the ex CTE: senders with a flagged inbound message in the window
ExSenders(st, s, t) ==
    {st[i].sender : i \in {j \in DOMAIN st : /\ InWindow(st[j], t)
                                             /\ st[j].is_receiver_me = "t"
                                             /\ st[j].classification \in ExSet(s)}}

\* sender not in (select sender from ex), with SQL's three-valued NOT IN
\* (NOT IN over an empty set is true, also for a NULL sender)
NotInEx(sender, ex) == ex = {} \/ (sender # NULL /\ sender \notin ex /\ NULL \notin ex)

\* order by created_at: NULL sorts last
OrderKey(row) == IF row.created_at = NoTime THEN MaxTime + 1 ELSE row.created_at

\* mutant: order by created_at desc limit n
NewestLimit(st, M, n) ==
    {C \in SUBSET M : /\ Cardinality(C) = Min(n, Cardinality(M))
                      /\ \A a \in C, b \in M \ C : OrderKey(st[b]) <= OrderKey(st[a])}

\* order by created_at limit n: every choice the ties allow
OldestLimit(st, M, n) ==
    {C \in SUBSET M : /\ Cardinality(C) = Min(n, Cardinality(M))
                      /\ \A a \in C, b \in M \ C : OrderKey(st[a]) <= OrderKey(st[b])}

\* limit n without order by: any n rows
AnyLimit(M, n) == {C \in SUBSET M : Cardinality(C) = Min(n, Cardinality(M))}

\* mutant: the query does not ask for `classification is null`
ToClassifyAgain(st, t) ==
    {i \in DOMAIN st : /\ InWindow(st[i], t)
                       /\ st[i].is_receiver_me = "t"
                       /\ NotInEx(st[i].sender, ExSenders(st, "classify", t))}

\* mutant: the query does not ask for is_receiver_me
ToClassifyOutbound(st, t) ==
    {i \in DOMAIN st : /\ InWindow(st[i], t)
                       /\ st[i].classification = NULL
                       /\ NotInEx(st[i].sender, ExSenders(st, "classify", t))}

\* where clause of get_locked_msgs_to_classify
ToClassify(st, t) ==
    {i \in DOMAIN st : /\ InWindow(st[i], t)
                       /\ st[i].is_receiver_me = "t"
                       /\ st[i].classification = NULL
                       /\ NotInEx(st[i].sender, ExSenders(st, "classify", t))}

\* inner select of get_locked_msgs_to_reply before distinct on
ReplyPool(st, t) ==
    {i \in DOMAIN st : /\ InWindow(st[i], t)
                       /\ st[i].is_receiver_me = "t"
                       /\ NotInEx(st[i].sender, ExSenders(st, "reply", t))
                       /\ st[i].classification \in AnySet("reply")}

\* mutant: the rows with a reply are dropped before distinct on, so it keeps
\* the newest unreplied row of each sender
LatestUnrepliedPerSender(st, P) ==
    LET U == {i \in P : st[i].reply_body = NULL}
        snd == {st[i].sender : i \in U}
        newest(x) == {i \in U : /\ st[i].sender = x
                                /\ \A j \in U : st[j].sender = x
                                       => st[j].created_at <= st[i].created_at}
    IN  {D \in SUBSET U : \A x \in snd : Cardinality(D \cap newest(x)) = 1
                                         /\ D \subseteq UNION {newest(y) : y \in snd}}

\* distinct on (sender) ... order by sender, created_at desc: one newest row
\* per sender, every choice the ties allow
LatestPerSender(st, P) ==
    LET snd == {st[i].sender : i \in P}
        newest(x) == {i \in P : /\ st[i].sender = x
                                /\ \A j \in P : st[j].sender = x
                                       => st[j].created_at <= st[i].created_at}
    IN  {D \in SUBSET P : \A x \in snd : Cardinality(D \cap newest(x)) = 1
                                         /\ D \subseteq UNION {newest(y) : y \in snd}}

\* where clause of get_locked_msgs_to_summarize
ToSummarize(st, t) ==
    {i \in DOMAIN st : /\ InWindow(st[i], t)
                       /\ st[i].is_receiver_me = "t"
                       /\ st[i].summary = NULL
                       /\ st[i].classification \in AnySet("summarize")
                       /\ NotInEx(st[i].sender, ExSenders(st, "summarize", t))}

\* where clause of get_locked_replies_to_send
ToSend(st) == {i \in DOMAIN st : st[i].reply_body # NULL /\ st[i].reply_id = NULL}

\* where clause of get_locked_summaries_to_share
ToShare(st) == {i \in DOMAIN st : st[i].summary # NULL /\ st[i].post_id = NULL}

\* the msgs CTE of stage s with `limit` n at time t: the sets of msg_ids it may select
CandidateSets(st, s, t, n) ==
    CASE s = "classify"  -> OldestLimit(st, ToClassify(st, t), n)
      [] s = "reply"     ->
           UNION {AnyLimit({i \in D : st[i].reply_body = NULL}, n) :
                    D \in LatestPerSender(st, ReplyPool(st, t))}
      [] s = "summarize" -> OldestLimit(st, ToSummarize(st, t), n)
      [] s = "send"      -> OldestLimit(st, ToSend(st), n)
      [] s = "share"     -> OldestLimit(st, ToShare(st), n)

\* a query string as the sequence of its tokens; words are letters, the rest
\* is punctuation or white space
WordTokens == {"with", "WITH", "msgs", "as", "ex", "select"}
Lower(tok) == IF tok = "WITH" THEN "with" ELSE tok

RECURSIVE Strip(_)
\* str.strip()
Strip(q) ==
    IF q = <<>> THEN q
    ELSE IF Head(q) = " " THEN Strip(Tail(q))
    ELSE IF q[Len(q)] = " " THEN Strip(SubSeq(q, 1, Len(q) - 1))
    ELSE q

\* query_string.lower().strip()
Normalize(q) == Strip([i \in DOMAIN q |-> Lower(q[i])])

\* \b at the border between tokens i and i+1 (0 and Len are the string's ends)
Boundary(q, i) ==
    LET left  == i >= 1 /\ q[i] \in WordTokens
        right == i < Len(q) /\ q[i + 1] \in WordTokens
    IN  left # right

\* re.search(r"^with\b", q)
StartsWithWith(q) == Len(q) >= 1 /\ q[1] = "with" /\ Boundary(q, 1)

\* re.search(r".*\bmsgs\s+as\b", q)
HasMsgsAs(q) ==
    \E i, j \in DOMAIN q :
        /\ i + 1 < j
        /\ q[i] = "msgs" /\ Boundary(q, i - 1)
        /\ \A k \in (i + 1)..(j - 1) : q[k] = " "
        /\ q[j] = "as" /\ Boundary(q, j)

\* re.search(r"\)$", q)
EndsWithParen(q) == Len(q) >= 1 /\ q[Len(q)] = ")"

\* validate_query raises ValueError unless all three searches match
validate_query(q) ==
    LET n == Normalize(q) IN
    IF StartsWithWith(n) /\ HasMsgsAs(n) /\ EndsWithParen(n)
    THEN [raised |-> FALSE, query |-> n]
    ELSE [raised |-> TRUE, query |-> q]

\* the query text each decorated function returns
StageQuery(s) ==
    CASE s \in {"classify", "reply", "summarize"} ->
           <<" ", "with", " ", "ex", " ", "as", " ", "(", "select", ")", ",", " ",
             "msgs", " ", "as", " ", "(", "select", ")", " ">>
      [] s = "send"  ->
           <<" ", "with", " ", "msgs", " ", "as", " ", "(", "select", ")", " ">>
      [] s = "share" ->
           <<" ", "with", " ", "msgs", " ", "as", "(", "select", ")", " ">>

\* mutant: the lock is compared with now instead of now - lock_timeout_seconds
EligibleNoTimeout(row, t) == row.locked_at = NoTime \/ row.locked_at < t

\* mutant: the threshold is one second too early
EligibleLate(row, t) == row.locked_at = NoTime \/ row.locked_at < t - LockTimeout - 1

\* mutant: the threshold is one second too late, a lock expires a second early
EligibleEarly(row, t) == row.locked_at = NoTime \/ row.locked_at < t - LockTimeout + 1

\* and (target_table.locked_at is null or target_table.locked_at < {timeout_threshold})
Eligible(row, t) == row.locked_at = NoTime \/ row.locked_at < t - LockTimeout

\* msg_class(**dict(row)) of a msgs row
RowToMsg(id, row, cols) ==
    [f \in MsgFields \cup {"msg_id"} |->
        IF f = "msg_id" THEN id ELSE IF f \in cols THEN row[f] ELSE NullOf(f)]

RECURSIVE SeqOfSet(_)
\* the rows of a result set as a list (one fixed order)
SeqOfSet(S) ==
    IF S = {} THEN <<>>
    ELSE LET x == CHOOSE y \in S : TRUE
         IN  <<x>> \o SeqOfSet(S \ {x})

\* mutant: the UPDATE has no condition on locked_at
UpdatedAll(st, cand, t) == cand

\* mutant: the UPDATE takes unlocked rows only and never an expired lock
UpdatedUnlockedOnly(st, cand, t) == {i \in cand : st[i].locked_at = NoTime}

\* mutant: the UPDATE is not joined to msgs and takes every eligible row
UpdatedNoJoin(st, cand, t) == {i \in DOMAIN st : Eligible(st[i], t)}

\* the updated CTE: the candidate rows the UPDATE modifies
Updated(st, cand, t) == {i \in cand : Eligible(st[i], t)}

\* with_pipe_lock.wrapper: q the query text, cand the rows its msgs CTE selects,
\* cols its columns, t = int(time.time()), dbFail an exception of the store
wrapper(st, q, cand, cols, t, dbFail) ==
    LET v   == validate_query(q)
        upd == Updated(st, cand, t)
    IN  IF v.raised THEN [raised |-> TRUE, ret |-> <<>>, store |-> st]
        ELSE IF dbFail THEN [raised |-> FALSE, ret |-> <<>>, store |-> st]
        ELSE [raised |-> FALSE,
              ret    |-> [k \in DOMAIN SeqOfSet(cand \cap upd) |->
                            RowToMsg(SeqOfSet(cand \cap upd)[k],
                                     st[SeqOfSet(cand \cap upd)[k]], cols)],
              store  |-> [i \in DOMAIN st |->
                            IF i \in upd THEN [st[i] EXCEPT !.locked_at = t] ELSE st[i]]]

\* get_thread_of_msgs: the rows of the inner select
ThreadPool(st, msg, t) ==
    {i \in DOMAIN st : /\ InWindow(st[i], t)
                       /\ st[i].source = msg.source
                       /\ \/ st[i].sender = msg.sender /\ st[i].receiver = msg.receiver
                          \/ st[i].sender = msg.receiver /\ st[i].receiver = msg.sender
                       /\ st[i].is_receiver_me = "t"}

\* order by created_at desc limit thread_limit: every choice the ties allow
ThreadSets(st, msg, t) ==
    LET P == ThreadPool(st, msg, t) IN
    {C \in SUBSET P : /\ Cardinality(C) = Min(ThreadLimit, Cardinality(P))
                      /\ \A a \in C, b \in P \ C : st[b].created_at <= st[a].created_at}

\* msgs[-1] of the thread ordered by created_at: a newest row of the thread,
\* as AppMsg of the selected columns; {} when the thread is empty
ThreadLasts(st, msg, t) ==
    {RowToMsg(i, st[i], {"created_at", "body", "reply_body", "classification"}) :
        i \in UNION {{a \in C : \A b \in C : st[b].created_at <= st[a].created_at} :
                       C \in ThreadSets(st, msg, t)}}

-----------------------------------------------------------------------------
(* Classifier (models/leeloo_dallas.py) *)

\* mutant: instruction is looked for before spam
Pass0InstructionFirst(results) ==
    LET in(x) == \E i \in DOMAIN results : results[i] = x IN
    IF in(NULL) THEN NULL
    ELSE IF in("instruction") THEN "instruction"
    ELSE IF in("spam") THEN "spam"
    ELSE IF in("inquiry") THEN "inquiry"
    ELSE IF in("story") THEN "pass1"
    ELSE "other"

\* mutant: a failed sub-classification is looked for after the labels
Pass0LabelsBeforeNone(results) ==
    LET in(x) == \E i \in DOMAIN results : results[i] = x IN
    IF in("spam") THEN "spam"
    ELSE IF in("instruction") THEN "instruction"
    ELSE IF in("inquiry") THEN "inquiry"
    ELSE IF in(NULL) THEN NULL
    ELSE IF in("story") THEN "pass1"
    ELSE "other"

\* the decision tree of pass 0; "pass1" stands for falling through to pass 1
Pass0(results) ==
    LET in(x) == \E i \in DOMAIN results : results[i] = x IN
    IF in(NULL) THEN NULL
    ELSE IF in("spam") THEN "spam"
    ELSE IF in("instruction") THEN "instruction"
    ELSE IF in("inquiry") THEN "inquiry"
    ELSE IF in("story") THEN "pass1"
    ELSE "other"

\* mutant: banned is looked for before illegal, interesting is returned
Pass1BannedFirst(results) ==
    LET in(x) == \E i \in DOMAIN results : results[i] = x IN
    IF in(NULL) THEN NULL
    ELSE IF in("banned") THEN "banned"
    ELSE IF in("illegal") THEN "illegal"
    ELSE IF in("boring") THEN "boring"
    ELSE "story"

\* the decision tree of pass 1
Pass1(results) ==
    LET in(x) == \E i \in DOMAIN results : results[i] = x IN
    IF in(NULL) THEN NULL
    ELSE IF in("illegal") THEN "illegal"
    ELSE IF in("banned") THEN "banned"
    ELSE IF in("boring") THEN "boring"
    ELSE "story"

\* multi_pass: p0, p1 the results of the sub-classifiers of the two passes
multi_pass(p0, p1) == IF Pass0(p0) = "pass1" THEN Pass1(p1) ELSE Pass0(p0)

\* the sub-classifier answers the pipeline runs are checked with
ClassifierRuns ==
    { [p0 |-> <<"other", "inquiry", "other", "other">>, p1 |-> <<>>],
      [p0 |-> <<"other", "other", "other", "story">>,
       p1 |-> <<"safe", "safe", "interesting">>],
      [p0 |-> <<"other", "other", "other", "story">>,
       p1 |-> <<"banned", "safe", "interesting">>],
      [p0 |-> <<"other", NULL, "other", "other">>, p1 |-> <<>>] }

-----------------------------------------------------------------------------
(* The stage cycles (models/agent.py, interfaces/reddit.py) *)

NoOp == [kind |-> "none"]

\* the fields of the table other than the lock column
NonLock(st) == [i \in DOMAIN st |-> [f \in MsgFields |-> st[i][f]]]

MsgIdsOf(msgs) == {msgs[i].msg_id : i \in {j \in DOMAIN msgs : msgs[j] # NoneMsg}}

Live(at, t) == at # NoTime /\ at >= t - LockTimeout

\* history of the grants: a release clears them, an expired one is forgotten
GrantsAfterClaim(g, ids, t) ==
    [i \in DOMAIN g |->
        IF i \in ids THEN Append(SelectSeq(g[i], LAMBDA at : Live(at, t)), t) ELSE g[i]]
GrantsAfterRelease(g, ids) == [i \in DOMAIN g |-> IF i \in ids THEN <<>> ELSE g[i]]

EndCycle(w) ==
    /\ pc' = [pc EXCEPT ![w] = "idle"]
    /\ stage' = [stage EXCEPT ![w] = "none"]
    /\ locked_msgs' = [locked_msgs EXCEPT ![w] = <<>>]
    /\ work' = [work EXCEPT ![w] = <<>>]
    /\ failed' = [failed EXCEPT ![w] = {}]
    /\ r' = [r EXCEPT ![w] = TRUE]
    /\ claimed_at' = [claimed_at EXCEPT ![w] = NoTime]
    /\ changed' = [changed EXCEPT ![w] = FALSE]
    /\ dbErr' = [dbErr EXCEPT ![w] = FALSE]
    /\ relSince' = [relSince EXCEPT ![w] = {}]

\* the record of a cycle that ends: what it claimed, which items failed, the
\* result it returns, whether it raised, whether release_locks ran ("ok",
\* "failed") or was skipped, and what its write-back did
EndOp(w, ok, raised, released) ==
    [kind |-> "end", w |-> w, stage |-> stage[w], claimed |-> MsgIdsOf(locked_msgs[w]),
     failed |-> failed[w], ok |-> ok, raised |-> raised, released |-> released,
     changed |-> changed[w], dbErr |-> dbErr[w]]

\* locked_msgs = await db.get_locked_msgs_to_...(...): the first statement of
\* every stage function; an empty list ends the cycle with True
ClaimWith(w, s, dbFail) ==
    /\ pc[w] = "idle"
    /\ \E cand \in CandidateSets(store, s, now, Limit) :
         LET res == wrapper(store, StageQuery(s), cand, Columns(s), now, dbFail) IN
         /\ store' = res.store
         /\ grants' = GrantsAfterClaim(grants, MsgIdsOf(res.ret), now)
         /\ op' = NoOp
         /\ IF res.ret = <<>>
            THEN UNCHANGED <<pc, stage, locked_msgs, claimed_at>>
            ELSE /\ pc' = [pc EXCEPT ![w] = "run"]
                 /\ stage' = [stage EXCEPT ![w] = s]
                 /\ locked_msgs' = [locked_msgs EXCEPT ![w] = res.ret]
                 /\ claimed_at' = [claimed_at EXCEPT ![w] = now]
    /\ UNCHANGED <<now, work, failed, r, changed, dbErr, relSince>>

\* the claim, whether the store fails the statement or not
Claim(w, s) == \E dbFail \in BOOLEAN : ClaimWith(w, s, dbFail)

\* one write-back transaction of worker w
WriteBack(w, res, dbFail, next) ==
    /\ store' = res.store
    /\ r' = [r EXCEPT ![w] = r[w] /\ res.ok]
    /\ changed' = [changed EXCEPT ![w] = changed[w] \/ NonLock(res.store) # NonLock(store)]
    /\ dbErr' = [dbErr EXCEPT ![w] = dbErr[w] \/ dbFail]
    /\ pc' = [pc EXCEPT ![w] = next]
    /\ op' = NoOp

\* classify_msgs after the claim: gather multi_pass, update_msgs
RunClassify(w) ==
    /\ pc[w] = "run" /\ stage[w] = "classify"
    /\ \E runs \in [DOMAIN locked_msgs[w] -> ClassifierRuns], dbFail \in BOOLEAN :
         LET cls(k) == multi_pass(runs[k].p0, runs[k].p1)
             ok == {k \in DOMAIN locked_msgs[w] : cls(k) # NULL}
             done == [k \in DOMAIN locked_msgs[w] |->
                        [locked_msgs[w][k] EXCEPT !.classification = cls(k)]]
             msgs_to_upsert == SelectSeq(done, LAMBDA m : m.classification # NULL)
             bad == {locked_msgs[w][k].msg_id : k \in DOMAIN locked_msgs[w] \ ok}
         IN  IF msgs_to_upsert = <<>>
             THEN /\ op' = [EndOp(w, FALSE, FALSE, "skipped") EXCEPT !.failed = bad]
                  /\ EndCycle(w)
                  /\ UNCHANGED <<store, grants>>
             ELSE /\ WriteBack(w, update_msgs(store, msgs_to_upsert, StoreFails(dbFail)), dbFail, "release")
                  /\ locked_msgs' = [locked_msgs EXCEPT ![w] = done]
                  /\ failed' = [failed EXCEPT ![w] = bad]
                  /\ UNCHANGED <<stage, work, claimed_at, relSince, grants>>
    /\ UNCHANGED <<now>>

\* generate_replies after the claim: gather get_thread_of_msgs; a thread that
\* is empty (no row matched, or the fetch failed and returned []) is kept as None
FetchThreads(w) ==
    /\ pc[w] = "run" /\ stage[w] = "reply"
    /\ \E lasts \in [DOMAIN locked_msgs[w] -> AllIds \cup {NULL}],
          dbFail \in [DOMAIN locked_msgs[w] -> BOOLEAN] :
         /\ \A k \in DOMAIN locked_msgs[w] :
              LET L == ThreadLasts(store, locked_msgs[w][k], now) IN
              IF dbFail[k] \/ L = {} THEN lasts[k] = NULL
              ELSE \E m \in L : m.msg_id = lasts[k]
         /\ work' = [work EXCEPT ![w] =
                       [k \in DOMAIN locked_msgs[w] |->
                          IF lasts[k] = NULL THEN NoneMsg
                          ELSE CHOOSE m \in ThreadLasts(store, locked_msgs[w][k], now) :
                                   m.msg_id = lasts[k]]]
    /\ pc' = [pc EXCEPT ![w] = "gen"]
    /\ op' = NoOp
    /\ UNCHANGED <<store, now, stage, locked_msgs, failed, r, claimed_at, changed,
                   dbErr, relSince, grants>>

\* the text the generator returns for the claimed message m
ReplyFor(m) == "reply:" \o m

\* generate_replies after the threads: gather replier.generate_response,
\* msgs = [msgs[-1] for msgs in msg_threads] (IndexError on an empty thread),
\* zip(msgs, replies), update_msgs(msgs)
GenReplies(w) ==
    /\ pc[w] = "gen" /\ stage[w] = "reply"
    /\ IF HasNone(work[w])
       THEN /\ op' = EndOp(w, FALSE, TRUE, "skipped")
            /\ EndCycle(w)
            /\ UNCHANGED <<store, grants>>
       ELSE \E gen \in [DOMAIN work[w] -> BOOLEAN], dbFail \in BOOLEAN :
              \* generate_response returns None when msgs[-1].classification is None
              /\ \A k \in DOMAIN work[w] : work[w][k].classification = NULL => ~gen[k]
              /\ LET msgs == [k \in DOMAIN work[w] |->
                                IF gen[k]
                                THEN [work[w][k] EXCEPT
                                        !.reply_body = ReplyFor(locked_msgs[w][k].msg_id)]
                                ELSE work[w][k]]
                     bad == {locked_msgs[w][k].msg_id :
                                k \in {j \in DOMAIN work[w] : ~gen[j]}}
                 IN  IF \A k \in DOMAIN work[w] : ~gen[k]
                     THEN /\ op' = [EndOp(w, FALSE, FALSE, "skipped") EXCEPT !.failed = bad]
                          /\ EndCycle(w)
                          /\ UNCHANGED <<store, grants>>
                     ELSE /\ WriteBack(w, update_msgs(store, msgs, StoreFails(dbFail)), dbFail, "release")
                          /\ work' = [work EXCEPT ![w] = msgs]
                          /\ failed' = [failed EXCEPT ![w] = bad]
                          /\ UNCHANGED <<stage, locked_msgs, claimed_at, relSince, grants>>
    /\ UNCHANGED <<now>>

SummaryFor(m) == "summary:" \o m
ImageFor(m) == "image:" \o m

\* generate_summaries after the claim: gather summarizer.generate_response,
\* pic.get_image_bytes, update_msgs(msgs_to_update)
RunSummarize(w) ==
    /\ pc[w] = "run" /\ stage[w] = "summarize"
    /\ \E out \in [DOMAIN locked_msgs[w] -> {"ok", "no_summary", "no_image"}],
          dbFail \in BOOLEAN :
         LET done == [k \in DOMAIN locked_msgs[w] |->
                        IF out[k] = "ok"
                        THEN [locked_msgs[w][k] EXCEPT
                                !.summary = SummaryFor(locked_msgs[w][k].msg_id),
                                !.images = ImageFor(locked_msgs[w][k].msg_id)]
                        ELSE locked_msgs[w][k]]
             msgs_to_update == SelectSeq(done, LAMBDA m : m.summary # NULL)
             bad == {locked_msgs[w][k].msg_id :
                        k \in {j \in DOMAIN locked_msgs[w] : out[j] # "ok"}}
         IN  IF msgs_to_update = <<>>
             THEN /\ op' = [EndOp(w, FALSE, FALSE, "skipped") EXCEPT !.failed = bad]
                  /\ EndCycle(w)
                  /\ UNCHANGED <<store, grants>>
             ELSE /\ WriteBack(w, update_msgs(store, msgs_to_update, StoreFails(dbFail)), dbFail, "release")
                  /\ locked_msgs' = [locked_msgs EXCEPT ![w] = done]
                  /\ failed' = [failed EXCEPT ![w] = bad]
                  /\ UNCHANGED <<stage, work, claimed_at, relSince, grants>>
    /\ UNCHANGED <<now>>

\* parse_reddit_message(item, False) of the reply the send capability created
SentMsg(msg, t) ==
    [AppMsg(ReplyRecordId(msg.msg_id)) EXCEPT
        !.created_at = t, !.source = "reddit:message", !.sender = Me,
        !.receiver = msg.sender, !.is_receiver_me = "f", !.body = msg.reply_body]

\* send_replies after the claim: gather _send_reply (sets msg.reply_id, returns
\* the new record or None), r0 = update_msgs(locked_msgs)
RunSend(w) ==
    /\ pc[w] = "run" /\ stage[w] = "send"
    /\ \E sent \in [DOMAIN locked_msgs[w] -> BOOLEAN], dbFail \in BOOLEAN :
         LET done == [k \in DOMAIN locked_msgs[w] |->
                        IF sent[k]
                        THEN [locked_msgs[w][k] EXCEPT
                                !.reply_id = ReplyRecordId(locked_msgs[w][k].msg_id)]
                        ELSE locked_msgs[w][k]]
             sent_msgs == [k \in DOMAIN locked_msgs[w] |->
                             IF sent[k] THEN SentMsg(locked_msgs[w][k], now) ELSE NoneMsg]
         IN  /\ WriteBack(w, update_msgs(store, done, StoreFails(dbFail)), dbFail, "upsert")
             /\ locked_msgs' = [locked_msgs EXCEPT ![w] = done]
             /\ work' = [work EXCEPT ![w] = sent_msgs]
             /\ failed' = [failed EXCEPT ![w] =
                             {locked_msgs[w][k].msg_id :
                                k \in {j \in DOMAIN locked_msgs[w] : ~sent[j]}}]
    /\ UNCHANGED <<now, stage, claimed_at, relSince, grants>>

\* send_replies: r1 = upsert_msgs(sent_msgs)
UpsertSent(w) ==
    /\ pc[w] = "upsert" /\ stage[w] = "send"
    /\ \E dbFail \in BOOLEAN :
         WriteBack(w, upsert_msgs(store, work[w], StoreFails(dbFail)), dbFail, "release")
    /\ UNCHANGED <<now, stage, locked_msgs, work, failed, claimed_at, relSince,
                   grants>>

PostFor(m) == "post:" \o m

\* post_summaries after the claim: gather _post_to_profile (the message with
\* post_id set, or None), update_msgs(posted_msgs)
RunShare(w) ==
    /\ pc[w] = "run" /\ stage[w] = "share"
    /\ \E posted \in [DOMAIN locked_msgs[w] -> BOOLEAN], dbFail \in BOOLEAN :
         LET done == [k \in DOMAIN locked_msgs[w] |->
                        IF posted[k]
                        THEN [locked_msgs[w][k] EXCEPT
                                !.post_id = PostFor(locked_msgs[w][k].msg_id)]
                        ELSE locked_msgs[w][k]]
             posted_msgs == [k \in DOMAIN locked_msgs[w] |->
                               IF posted[k] THEN done[k] ELSE NoneMsg]
         IN  /\ WriteBack(w, update_msgs(store, posted_msgs, StoreFails(dbFail)), dbFail, "release")
             /\ locked_msgs' = [locked_msgs EXCEPT ![w] = done]
             /\ failed' = [failed EXCEPT ![w] =
                             {locked_msgs[w][k].msg_id :
                                k \in {j \in DOMAIN locked_msgs[w] : ~posted[j]}}]
    /\ UNCHANGED <<now, stage, work, claimed_at, relSince, grants>>

\* await db.release_locks(locked_msgs); return r
Release(w) ==
    /\ pc[w] = "release"
    /\ \E dbFail \in BOOLEAN :
         LET res == release_locks(store, locked_msgs[w], dbFail)
             ids == IF res.ok THEN MsgIdsOf(locked_msgs[w]) ELSE {}
         IN  /\ store' = res.store
             /\ grants' = GrantsAfterRelease(grants, ids)
             /\ op' = EndOp(w, r[w], FALSE, IF res.ok THEN "ok" ELSE "failed")
             /\ pc' = [pc EXCEPT ![w] = "idle"]
             /\ stage' = [stage EXCEPT ![w] = "none"]
             /\ locked_msgs' = [locked_msgs EXCEPT ![w] = <<>>]
             /\ work' = [work EXCEPT ![w] = <<>>]
             /\ failed' = [failed EXCEPT ![w] = {}]
             /\ r' = [r EXCEPT ![w] = TRUE]
             /\ claimed_at' = [claimed_at EXCEPT ![w] = NoTime]
             /\ changed' = [changed EXCEPT ![w] = FALSE]
             /\ dbErr' = [dbErr EXCEPT ![w] = FALSE]
             /\ relSince' = [v \in DOMAIN relSince |->
                               IF v = w THEN {}
                               ELSE relSince[v] \cup (ids \cap MsgIdsOf(locked_msgs[v]))]
    /\ UNCHANGED <<now>>

\* read_loop: msg = parse_reddit_message(item, True); upsert_msgs([msg]). The
\* n-th message of the inbox was created at second n (item.created_utc)
Ingest(n, sender) ==
    /\ InboundId(n) \notin DOMAIN store
    /\ \A k \in 1..(n - 1) : InboundId(k) \in DOMAIN store
    /\ LET msg == [AppMsg(InboundId(n)) EXCEPT
                     !.created_at = n, !.source = "reddit:message", !.sender = sender,
                     !.receiver = Me, !.is_receiver_me = "t", !.body = "body"]
       IN  store' = upsert_msgs(store, <<msg>>, 0).store
    /\ op' = NoOp
    /\ UNCHANGED <<now, pc, stage, locked_msgs, work, failed, r, claimed_at, changed,
                   dbErr, relSince, grants>>

\* a second of the clock passes
Tick ==
    /\ now < MaxTime
    /\ now' = now + 1
    /\ op' = NoOp
    /\ UNCHANGED <<store, pc, stage, locked_msgs, work, failed, r, claimed_at, changed,
                   dbErr, relSince, grants, loop>>

\* the specifications of single workers and single calls have no service loop
NoLoops == <<>>

\* no worker is inside a cycle
Idle ==
    /\ pc = [w \in Workers |-> "idle"]
    /\ stage = [w \in Workers |-> "none"]
    /\ locked_msgs = [w \in Workers |-> <<>>]
    /\ work = [w \in Workers |-> <<>>]
    /\ failed = [w \in Workers |-> {}]
    /\ r = [w \in Workers |-> TRUE]
    /\ claimed_at = [w \in Workers |-> NoTime]
    /\ changed = [w \in Workers |-> FALSE]
    /\ dbErr = [w \in Workers |-> FALSE]
    /\ relSince = [w \in Workers |-> {}]
    /\ grants = [i \in AllIds |-> <<>>]
    /\ op = NoOp
    /\ loop = NoLoops

\* the table is empty and the clock shows the second the last message of the
\* inbox was created
InitAt(t) ==
    /\ store = [i \in {} |-> EmptyRow]
    /\ now = t
    /\ Idle

Init == InitAt(RaceMsgs)

\* the stage cycles of the workers W
Cycle(W) ==
    \/ \E w \in W, s \in Stages : Claim(w, s) /\ UNCHANGED loop
    \/ \E w \in W : RunClassify(w) /\ UNCHANGED loop
    \/ \E w \in W : FetchThreads(w) /\ UNCHANGED loop
    \/ \E w \in W : GenReplies(w) /\ UNCHANGED loop
    \/ \E w \in W : RunSummarize(w) /\ UNCHANGED loop
    \/ \E w \in W : RunSend(w) /\ UNCHANGED loop
    \/ \E w \in W : UpsertSent(w) /\ UNCHANGED loop
    \/ \E w \in W : RunShare(w) /\ UNCHANGED loop
    \/ \E w \in W : Release(w) /\ UNCHANGED loop

\* two workers race through the five stages for the messages of one sender
\* while the clock runs
Next ==
    \/ Cycle(Workers)
    \/ \E k \in 1..RaceMsgs : Ingest(k, "s1") /\ UNCHANGED loop
    \/ Tick

Spec == Init /\ [][Next]_vars

\* one worker runs the five stages over batches of messages, within one second
NextBatch ==
    \/ Cycle({"A"})
    \/ \E k \in 1..NumMsgs, sender \in Senders : Ingest(k, sender) /\ UNCHANGED loop

InitBatch == InitAt(NumMsgs)

SpecBatch == InitBatch /\ [][NextBatch]_vars

-----------------------------------------------------------------------------
(* The service loops (models/agent.py, interfaces/reddit.py) *)

\* run_agent_pipeline_service.loop, read_loop, reply_loop, post_loop
Loops == {"agent", "read", "reply", "post"}

\* where a loop begins: post_loop first asks for `me`, read_loop opens the
\* inbox stream
Start(l) ==
    CASE l = "agent" -> "classify"
      [] l = "read"  -> "stream"
      [] l = "reply" -> "send"
      [] l = "post"  -> "me"

\* where an iteration begins: the first statement inside `while True: try:`
First(l) == IF l = "post" THEN "share" ELSE Start(l)

\* the statement after the call of stage s: classify_msgs, generate_replies
\* and generate_summaries follow each other in the agent loop and in the
\* read loop; asyncio.sleep follows the last call
After(s) ==
    CASE s = "classify" -> "reply"
      [] s = "reply"    -> "summarize"
      [] OTHER          -> "sleep"

\* mutant: the handler of Exception leaves the loop
OnExceptionBreak(l) == "done"

\* except Exception: log, await asyncio.sleep(check_every_seconds)
OnException(l) == "sleep"

\* mutant: CancelledError is handled like any exception
OnCancelledSleep(l) == "sleep"

\* except asyncio.CancelledError: log, break
OnCancelled(l) == "done"

Running(l) == loop[l].pos \notin {"done", "dead"}

\* the loop moves on when the stage function it awaits has returned or raised
Advance(l) ==
    loop' = [loop EXCEPT ![l].pos =
                IF pc'[l] # "idle" THEN @
                ELSE IF op'.kind = "end" /\ op'.raised THEN OnException(l)
                ELSE After(@)]

\* await asyncio.sleep(check_every_seconds) is over: the next iteration
Wake(l) ==
    /\ loop[l].pos = "sleep"
    /\ loop' = [loop EXCEPT ![l].pos = First(l)]
    /\ op' = NoOp
    /\ UNCHANGED <<store, now, pc, stage, locked_msgs, work, failed, r, claimed_at,
                   changed, dbErr, relSince, grants>>

\* read_loop: the inbox stream yields the next item; it is parsed and upserted
Stream(l) ==
    /\ l = "read" /\ loop[l].pos = "stream"
    /\ \E k \in 1..RaceMsgs : Ingest(k, "s1")
    /\ loop' = [loop EXCEPT ![l].pos = "classify"]

\* read_loop: the inbox stream raises
StreamError(l) ==
    /\ l = "read" /\ loop[l].pos = "stream"
    /\ loop' = [loop EXCEPT ![l].pos = OnException(l)]
    /\ op' = NoOp
    /\ UNCHANGED <<store, now, pc, stage, locked_msgs, work, failed, r, claimed_at,
                   changed, dbErr, relSince, grants>>

\* post_loop: me = await client.user.me(), before `while True` and outside
\* the try: an exception here ends the task
PostStart(l) ==
    /\ l = "post" /\ loop[l].pos = "me"
    /\ \E ok \in BOOLEAN : loop' = [loop EXCEPT ![l].pos = IF ok THEN "share" ELSE "dead"]
    /\ op' = NoOp
    /\ UNCHANGED <<store, now, pc, stage, locked_msgs, work, failed, r, claimed_at,
                   changed, dbErr, relSince, grants>>

\* the task of loop l is cancelled: CancelledError is raised at the await the
\* loop is suspended in; the stage functions catch Exception only, so it
\* reaches the loop. The rows the cycle in flight claimed stay locked
Cancel(l) ==
    /\ Running(l)
    /\ loop' = [loop EXCEPT ![l] = [pos |-> OnCancelled(l),
                                    held |-> MsgIdsOf(locked_msgs[l]),
                                    at |-> claimed_at[l]]]
    /\ EndCycle(l)
    /\ op' = [kind |-> "cancel", w |-> l]
    /\ UNCHANGED <<store, now, grants>>

\* the calls of the store inside a stage function
StoreSteps(l) ==
    \/ loop[l].pos \in Stages /\ Claim(l, loop[l].pos) /\ Advance(l)
    \/ FetchThreads(l) /\ Advance(l)
    \/ UpsertSent(l) /\ Advance(l)
    \/ Release(l) /\ Advance(l)

\* the tasks L are created; nothing is stored yet
InitLoops(L) ==
    /\ store = [i \in {} |-> EmptyRow]
    /\ now = RaceMsgs
    /\ pc = [l \in L |-> "idle"]
    /\ stage = [l \in L |-> "none"]
    /\ locked_msgs = [l \in L |-> <<>>]
    /\ work = [l \in L |-> <<>>]
    /\ failed = [l \in L |-> {}]
    /\ r = [l \in L |-> TRUE]
    /\ claimed_at = [l \in L |-> NoTime]
    /\ changed = [l \in L |-> FALSE]
    /\ dbErr = [l \in L |-> FALSE]
    /\ relSince = [l \in L |-> {}]
    /\ grants = [i \in AllIds |-> <<>>]
    /\ op = NoOp
    /\ loop = [l \in L |-> [pos |-> Start(l), held |-> {}, at |-> NoTime]]

InitService == InitLoops(Loops)

\* the four tasks the application starts, within one second
NextService ==
    \/ \E l \in Loops : Running(l) /\ StoreSteps(l)
    \/ \E l \in Loops : Running(l) /\ RunClassify(l) /\ Advance(l)
    \/ \E l \in Loops : Running(l) /\ GenReplies(l) /\ Advance(l)
    \/ \E l \in Loops : Running(l) /\ RunSummarize(l) /\ Advance(l)
    \/ \E l \in Loops : Running(l) /\ RunSend(l) /\ Advance(l)
    \/ \E l \in Loops : Running(l) /\ RunShare(l) /\ Advance(l)
    \/ \E l \in Loops : Wake(l)
    \/ \E l \in Loops : Stream(l)
    \/ \E l \in Loops : StreamError(l)
    \/ \E l \in Loops : PostStart(l)

SpecService == InitService /\ [][NextService]_vars

\* the event loop resumes a task whose sleep is over; the calls of the store,
\* the classifier, the generators, Reddit and the inbox stream may take
\* arbitrarily long
FairService == \A l \in Loops : WF_vars(Wake(l))

SpecServiceFair == SpecService /\ FairService

\* the two loops that run the models, the clock, and cancellation of a task
ModelLoops == {"agent", "read"}

InitCancel == InitLoops(ModelLoops)

NextCancel ==
    \/ \E l \in ModelLoops : Running(l) /\ StoreSteps(l)
    \/ \E l \in ModelLoops : Running(l) /\ RunClassify(l) /\ Advance(l)
    \/ \E l \in ModelLoops : Running(l) /\ GenReplies(l) /\ Advance(l)
    \/ \E l \in ModelLoops : Running(l) /\ RunSummarize(l) /\ Advance(l)
    \/ \E l \in ModelLoops : Wake(l)
    \/ \E l \in ModelLoops : Stream(l)
    \/ \E l \in ModelLoops : StreamError(l)
    \/ \E l \in ModelLoops : Cancel(l)
    \/ Tick

SpecCancel == InitCancel /\ [][NextCancel]_vars

-----------------------------------------------------------------------------
(* Single calls of the claim decorator on sampled tables *)

\* a row of the table in one of the positions of the pipeline
SampleRow(kind, sender, created, lock) ==
    [EmptyRow EXCEPT
        !.created_at = created, !.source = "reddit:message", !.sender = sender,
        !.receiver = Me, !.is_receiver_me = "t", !.body = "body",
        !.classification = CASE kind = "new" -> NULL
                             [] kind \in {"inquiry", "replied"} -> "inquiry"
                             [] OTHER -> "story",
        !.reply_body = IF kind = "replied" THEN "reply" ELSE NULL,
        !.summary = IF kind = "summarized" THEN "summary" ELSE NULL,
        !.images = IF kind = "summarized" THEN "image" ELSE NULL,
        !.locked_at = lock]

SampleKinds == {"new", "inquiry", "story", "replied", "summarized"}
SampleLocks == {NoTime} \cup 1..(MaxTime - 1)

\* tables of two or three rows in the same position, created in the same
\* second or one second apart, of two senders, each locked or not
SampleTables ==
    UNION {
      { [i \in {InboundId(1), InboundId(2)} |->
           IF i = InboundId(1) THEN SampleRow(kind, "s1", 1, l1)
           ELSE SampleRow(kind, "s2", 1, l2)],
        [i \in {InboundId(1), InboundId(2), InboundId(3)} |->
           IF i = InboundId(1) THEN SampleRow(kind, "s1", 1, l1)
           ELSE IF i = InboundId(2) THEN SampleRow(kind, "s2", 1, l2)
           ELSE SampleRow(kind, "s2", 2, NoTime)] }
      : kind \in SampleKinds, l1 \in SampleLocks, l2 \in SampleLocks }

RemoveAt(q, i) == SubSeq(q, 1, i - 1) \o SubSeq(q, i + 1, Len(q))
FirstIndex(q, tok) == CHOOSE i \in DOMAIN q : q[i] = tok /\ \A j \in 1..(i - 1) : q[j] # tok

\* the query of stage s as written, in upper case, and damaged in one place
QuerySamples(s) ==
    LET q == StageQuery(s) IN
    { q,
      [i \in DOMAIN q |-> IF q[i] = "with" THEN "WITH" ELSE q[i]],
      RemoveAt(q, FirstIndex(q, "with")),
      RemoveAt(q, FirstIndex(q, "msgs")),
      RemoveAt(q, FirstIndex(q, "msgs") + 1),
      RemoveAt(q, Len(q) - 1),
      SubSeq(q, 1, Len(q) - 1) \o <<";">> }

InitWrapper ==
    /\ store \in SampleTables
    /\ now \in 1..MaxTime
    /\ Idle

\* one call of a decorated function of stage s. The store runs the statement
\* only for the text of the stage's query; any other text it rejects
CallWrapper(s) ==
    /\ op.kind = "none"
    /\ \E q \in QuerySamples(s), dbFail \in BOOLEAN,
          cand \in CandidateSets(store, s, now, Limit) :
         /\ Normalize(q) # Normalize(StageQuery(s)) => dbFail
         /\ LET res == wrapper(store, q, cand, Columns(s), now, dbFail) IN
            /\ store' = res.store
            /\ op' = [kind |-> "claim", stage |-> s, query |-> q, cand |-> cand,
                      dbFail |-> dbFail, raised |-> res.raised, ret |-> res.ret,
                      at |-> now, pre |-> store]
    /\ UNCHANGED <<now, pc, stage, locked_msgs, work, failed, r, claimed_at, changed,
                   dbErr, relSince, grants, loop>>

NextWrapper == \E s \in Stages : CallWrapper(s)

SpecWrapper == InitWrapper /\ [][NextWrapper]_vars

-----------------------------------------------------------------------------
(* Single claims with every `limit` on the sampled tables *)

\* one call of the decorated function of stage s with limit = n
CallLimit(s, n) ==
    /\ op.kind = "none"
    /\ \E dbFail \in BOOLEAN, cand \in CandidateSets(store, s, now, n) :
         LET res == wrapper(store, StageQuery(s), cand, Columns(s), now, dbFail) IN
         /\ store' = res.store
         /\ op' = [kind |-> "claim", stage |-> s, limit |-> n, cand |-> cand,
                   dbFail |-> dbFail, raised |-> res.raised, ret |-> res.ret,
                   at |-> now, pre |-> store]
    /\ UNCHANGED <<now, pc, stage, locked_msgs, work, failed, r, claimed_at, changed,
                   dbErr, relSince, grants, loop>>

NextLimit == \E s \in Stages, n \in 1..Limit : CallLimit(s, n)

SpecLimit == InitWrapper /\ [][NextLimit]_vars

-----------------------------------------------------------------------------
(* Single claims of a stage on tables of mixed rows *)

QueryKinds == {"new", "inquiry", "replied", "story", "banned", "illegal"}

\* a row in one of the positions of the pipeline or flagged by the classifier,
\* inbound or outbound
QueryRow(kind, sender, created, inbound) ==
    [SampleRow(kind, sender, created, NoTime) EXCEPT
        !.classification = IF kind \in {"banned", "illegal"} THEN kind ELSE @,
        !.is_receiver_me = inbound]

\* two unlocked rows: the first inside the lookback window, the second of the
\* same sender, of another one or of a deleted author, inside the window or
\* created at second 0 and so outside it
QueryTables ==
    { [i \in {InboundId(1), InboundId(2)} |->
         IF i = InboundId(1) THEN QueryRow(k1, "s1", c1, "t")
         ELSE QueryRow(k2, s2, c2, in2)]
      : k1 \in QueryKinds, c1 \in 1..2,
        k2 \in QueryKinds, s2 \in Senders \cup {NULL}, c2 \in 0..2, in2 \in {"t", "f"} }

InitQuery ==
    /\ store \in QueryTables
    /\ now = MaxTime
    /\ Idle

\* one call of the decorated function of stage s; the store does not fail
CallStage(s) ==
    /\ op.kind = "none"
    /\ \E cand \in CandidateSets(store, s, now, Limit) :
         LET res == wrapper(store, StageQuery(s), cand, Columns(s), now, FALSE) IN
         /\ store' = res.store
         /\ op' = [kind |-> "claim", stage |-> s, cand |-> cand, raised |-> res.raised,
                   ret |-> res.ret, at |-> now, pre |-> store]
    /\ UNCHANGED <<now, pc, stage, locked_msgs, work, failed, r, claimed_at, changed,
                   dbErr, relSince, grants, loop>>

NextQuery == \E s \in Stages : CallStage(s)

SpecQuery == InitQuery /\ [][NextQuery]_vars

-----------------------------------------------------------------------------
(* Repeated cycles while time passes *)

\* the clock read relative to the present: when a second passes every lock
\* is one second older. A lock older than lock_timeout is expired whatever its
\* age, so its age is counted no further. The lookback of a week is long
\* against the seconds of the cycles: created_at stays inside the window
Aged(at) ==
    IF at = NoTime \/ at <= now - LockTimeout - 1 THEN at ELSE at - 1

\* a second passes
Elapse ==
    /\ store' = [i \in DOMAIN store |-> [store[i] EXCEPT !.locked_at = Aged(@)]]
    /\ claimed_at' = [w \in DOMAIN claimed_at |-> Aged(claimed_at[w])]
    /\ grants' = [i \in DOMAIN grants |-> [k \in DOMAIN grants[i] |-> Aged(grants[i][k])]]
    /\ op' = NoOp
    /\ UNCHANGED <<now, pc, stage, locked_msgs, work, failed, r, changed, dbErr,
                   relSince, loop>>

\* the step of worker w meets no failure of the store, and its capability
\* fails for the messages bad and for no other
FailsOnly(w, bad) ==
    /\ ~dbErr'[w]
    /\ IF op'.kind = "end"
       THEN op'.failed = bad /\ ~op'.dbErr /\ op'.released # "failed"
       ELSE failed'[w] = bad

\* a body for which multi_pass returns None whenever it is asked
Unreadable == "unreadable"

\* the messages of the batch of w whose body the classifier cannot read
UnreadableOf(w) ==
    {locked_msgs[w][k].msg_id :
        k \in {j \in DOMAIN locked_msgs[w] : locked_msgs[w][j].body = Unreadable}}

\* Limit + 1 inbound messages wait for their classification: the first Limit
\* of them arrived in second 1, the last one in second 2; each is readable or not
StarveIds == {InboundId(n) : n \in 1..(Limit + 1)}
StarveTables ==
    { [i \in StarveIds |->
         [SampleRow("new", IF i = InboundId(1) THEN "s1" ELSE "s2",
                    IF i = InboundId(Limit + 1) THEN 2 ELSE 1, NoTime)
            EXCEPT !.body = IF i \in U THEN Unreadable ELSE "body"]]
      : U \in SUBSET StarveIds }

InitStarve ==
    /\ store \in StarveTables
    /\ now = MaxTime
    /\ Idle

\* classify_msgs of one worker, again and again; the store does not fail and
\* the classifier fails on the unreadable bodies only
ClaimStarve == ClaimWith("A", "classify", FALSE) /\ UNCHANGED loop

CycleStarve ==
    \/ RunClassify("A") /\ FailsOnly("A", UnreadableOf("A")) /\ UNCHANGED loop
    \/ Release("A") /\ op'.released = "ok" /\ UNCHANGED loop

NextStarve == ClaimStarve \/ CycleStarve \/ Elapse

SpecStarve == InitStarve /\ [][NextStarve]_vars

\* a function that was called runs to its end, and time passes
FairStarve == WF_vars(CycleStarve) /\ WF_vars(Elapse)

SpecStarveFair == SpecStarve /\ FairStarve

\* two inbound messages wait for their classification: the first arrived in
\* second 1, the second in second 2, from the same sender or from another
QuietTables ==
    { [i \in {InboundId(1), InboundId(2)} |->
         IF i = InboundId(1) THEN SampleRow("new", "s1", 1, NoTime)
         ELSE SampleRow("new", sender, 2, NoTime)]
      : sender \in Senders }

InitQuiet ==
    /\ store \in QuietTables
    /\ now = MaxTime
    /\ Idle

\* the messages of the batch of w whose thread ends in a message without
\* classification: generate_response raises on msgs[-1].classification.value
\* and returns None
BouncedOf(w) ==
    {locked_msgs[w][k].msg_id :
        k \in {j \in DOMAIN work[w] : work[w][j].classification = NULL}}

\* the five stage functions of one worker, one cycle after the other; the
\* store and the capabilities (classifier, generators, Reddit) do not fail
CycleQuiet ==
    \/ RunClassify("A") /\ FailsOnly("A", {}) /\ UNCHANGED loop
    \/ FetchThreads("A") /\ ~HasNone(work'["A"]) /\ UNCHANGED loop
    \/ GenReplies("A") /\ FailsOnly("A", BouncedOf("A")) /\ UNCHANGED loop
    \/ RunSummarize("A") /\ FailsOnly("A", {}) /\ UNCHANGED loop
    \/ RunSend("A") /\ FailsOnly("A", {}) /\ UNCHANGED loop
    \/ UpsertSent("A") /\ FailsOnly("A", failed["A"]) /\ UNCHANGED loop
    \/ RunShare("A") /\ FailsOnly("A", {}) /\ UNCHANGED loop
    \/ Release("A") /\ op'.released = "ok" /\ UNCHANGED loop

\* the first statement of the function of stage s
ClaimQuiet(s) == ClaimWith("A", s, FALSE) /\ UNCHANGED loop

NextQuiet ==
    \/ \E s \in Stages : ClaimQuiet(s)
    \/ CycleQuiet
    \/ Elapse

SpecQuiet == InitQuiet /\ [][NextQuiet]_vars

\* a function that was called runs to its end, and time passes
FairQuiet == WF_vars(CycleQuiet) /\ WF_vars(Elapse)

SpecQuietFair == SpecQuiet /\ FairQuiet

-----------------------------------------------------------------------------
(* Single calls of update_msgs, upsert_msgs and release_locks on sampled
   tables and messages *)

MaxBatch == 2

\* a row with every column set
FullRow(lock) ==
    [f \in RowFields |->
        CASE f = "created_at" -> 1
          [] f = "locked_at" -> lock
          [] f = "classification" -> "inquiry"
          [] f = "is_receiver_me" -> "t"
          [] OTHER -> "old"]

StoreIds == {InboundId(1), InboundId(2)}
StoreRows == {EmptyRow, FullRow(NoTime), FullRow(1)}
StoreTables == UNION {[D -> StoreRows] : D \in SUBSET StoreIds}

\* the fields the sampled messages may carry, with the value they carry
SampleFields == {"created_at", "classification", "reply_body"}
SampleValue(f) ==
    CASE f = "created_at" -> 2 [] f = "classification" -> "story" [] OTHER -> "new"

SampleMsg(id, S) ==
    [f \in MsgFields \cup {"msg_id"} |->
        IF f = "msg_id" THEN id ELSE IF f \in S THEN SampleValue(f) ELSE NullOf(f)]

SampleMsgs == {SampleMsg(id, S) : id \in StoreIds, S \in SUBSET SampleFields}
SampleBatches == UNION {[1..n -> SampleMsgs] : n \in 0..MaxBatch}

InitStore ==
    /\ store \in StoreTables
    /\ now = 1
    /\ Idle

\* one call: failAt the statement the store fails (0: none)
StoreCall(kind, msgs, failAt, res) ==
    /\ op.kind = "none"
    /\ store' = res.store
    /\ op' = [kind |-> kind, msgs |-> msgs, failAt |-> failAt, ok |-> res.ok,
              pre |-> store]
    /\ UNCHANGED <<now, pc, stage, locked_msgs, work, failed, r, claimed_at, changed,
                   dbErr, relSince, grants, loop>>

UpdateCall == \E msgs \in SampleBatches : \E failAt \in 0..(Len(msgs) + 1) :
                 StoreCall("update", msgs, failAt, update_msgs(store, msgs, failAt))
UpsertCall == \E msgs \in SampleBatches : \E failAt \in 0..(Len(msgs) + 1) :
                 StoreCall("upsert", msgs, failAt, upsert_msgs(store, msgs, failAt))
ReleaseCall == \E msgs \in SampleBatches, dbFail \in BOOLEAN :
                 StoreCall("release", msgs, StoreFails(dbFail),
                           release_locks(store, msgs, dbFail))

\* upsert_msgs is called again with the batch it has just stored
UpsertAgain ==
    /\ op.kind = "upsert" /\ op.ok
    /\ \E dbFail \in BOOLEAN :
         LET res == upsert_msgs(store, op.msgs, StoreFails(dbFail)) IN
         /\ store' = res.store
         /\ op' = [kind |-> "upsert2", msgs |-> op.msgs, failAt |-> StoreFails(dbFail),
                   ok |-> res.ok, pre |-> op.pre, once |-> store]
    /\ UNCHANGED <<now, pc, stage, locked_msgs, work, failed, r, claimed_at, changed,
                   dbErr, relSince, grants, loop>>

NextStore == UpdateCall \/ UpsertCall \/ ReleaseCall \/ UpsertAgain

SpecStore == InitStore /\ [][NextStore]_vars

-----------------------------------------------------------------------------
(* Single runs of multi_pass on every combination of sub-classifier answers *)

\* pass_0 and pass_1: the two labels each sub-classifier chooses from
pass_0 == <<{"instruction", "other"}, {"inquiry", "other"}, {"spam", "other"},
           {"story", "other"}>>
pass_1 == <<{"banned", "safe"}, {"illegal", "safe"}, {"interesting", "boring"}>>

\* classify_text: response.data, one of the labels of the result type, or
\* None after an exception
Answers(pass) ==
    {a \in [DOMAIN pass -> Classifications \cup {NULL}] :
        \A i \in DOMAIN pass : a[i] \in pass[i] \cup {NULL}}

\* the orders in which n tasks can complete
Orders(n) == {o \in [1..n -> 1..n] : \A i, j \in 1..n : o[i] = o[j] => i = j}

\* asyncio.gather(*tasks): the results in the order of the tasks, whatever
\* the order ord in which they completed
gather(ans, ord) == [i \in DOMAIN ans |-> ans[i]]

\* mutant: a sub-classifier that returned None is run a second time
InvokedRetry(results, exc) ==
    [k \in DOMAIN results |-> IF exc THEN 0 ELSE IF results[k] = NULL THEN 2 ELSE 1]

\* how often each sub-classifier of a pass is run: get_tasks makes one
\* coroutine per result type and gather awaits each; none when get_tasks raises
Invoked(results, exc) == [k \in DOMAIN results |-> IF exc THEN 0 ELSE 1]

\* the sub-classifiers of a pass that multi_pass has not reached
NotInvoked(pass) == [k \in DOMAIN pass |-> 0]

InitClassifier ==
    /\ store = [i \in {} |-> EmptyRow]
    /\ now = 1
    /\ Idle

\* the first try block of multi_pass: exc is an exception of get_tasks
ClassifyPass0 ==
    /\ op.kind = "none"
    /\ \E ans \in Answers(pass_0), ord \in Orders(4), exc \in BOOLEAN :
         LET results == gather(ans, ord) IN
         op' = [kind |-> "pass0", p0 |-> results, ord |-> ord, exc |-> exc,
                calls0 |-> Invoked(results, exc), calls1 |-> NotInvoked(pass_1),
                out |-> IF exc THEN NULL
                        ELSE IF Pass0(results) = "pass1" THEN "pass1"
                        ELSE multi_pass(results, <<>>)]
    /\ UNCHANGED <<store, now, pc, stage, locked_msgs, work, failed, r, claimed_at,
                   changed, dbErr, relSince, grants, loop>>

\* the second try block of multi_pass, reached when pass 0 found a story
ClassifyPass1 ==
    /\ op.kind = "pass0" /\ op.out = "pass1"
    /\ \E ans \in Answers(pass_1), ord \in Orders(3), exc \in BOOLEAN :
         LET results == gather(ans, ord) IN
         op' = [kind |-> "pass1", p0 |-> op.p0, p1 |-> results, ord |-> ord,
                exc |-> exc,
                calls0 |-> op.calls0, calls1 |-> Invoked(results, exc),
                out |-> IF exc THEN NULL ELSE multi_pass(op.p0, results)]
    /\ UNCHANGED <<store, now, pc, stage, locked_msgs, work, failed, r, claimed_at,
                   changed, dbErr, relSince, grants, loop>>

NextClassifier == ClassifyPass0 \/ ClassifyPass1

SpecClassifier == InitClassifier /\ [][NextClassifier]_vars

-----------------------------------------------------------------------------
(* Properties *)

\* the messages worker w received from its claim and has not yet released
Held(w) == MsgIdsOf(locked_msgs[w])

LiveGrants(i) == {k \in DOMAIN grants[i] : Live(grants[i][k], now)}

\* C1: of the claims that returned a row and whose lock on it is live (taken
\* no longer than lock_timeout ago and not released since), there is at most
\* one: two claims never both return a row while the lock of the first is live.
C1_MutualExclusion == \A i \in DOMAIN grants : Cardinality(LiveGrants(i)) <= 1

\* two workers hold the same row from claims of the same second: the lock of
\* the first was released in between
C1_Witness ==
    \E i \in DOMAIN store :
        /\ i \in Held("A") \cap Held("B")
        /\ claimed_at["A"] = claimed_at["B"]
        /\ Cardinality(LiveGrants(i)) = 1

\* the stage logic failed for item(s) of a cycle that ended, and release_locks
\* did not fail
CycleEndedWithFailedItems ==
    /\ op.kind = "end"
    /\ op.claimed # {}
    /\ op.failed # {}
    /\ op.released # "failed"

\* C2: when a cycle claimed a non-empty batch and the stage logic failed for
\* some or all of its messages, every claimed message is unlocked when the
\* cycle ends.
C2_ReleasedAfterFailure ==
    CycleEndedWithFailedItems => \A i \in op.claimed : store[i].locked_at = NoTime

LiveHolder(w, i) == i \in Held(w) /\ Live(claimed_at[w], now) /\ i \notin relSince[w]

ClaimRan == op.kind = "claim" /\ ~op.raised /\ ~op.dbFail

RetIds == MsgIdsOf(op.ret)

\* C4 as stated: a candidate row locked at T is returned by a claim at any
\* time t >= T + lock_timeout.
C4_ReclaimAtTimeout ==
    ClaimRan =>
        \A i \in op.cand :
            (op.pre[i].locked_at # NoTime /\ op.at >= op.pre[i].locked_at + LockTimeout)
                => i \in RetIds

\* C4 amended: a row of the candidate set locked at T (not released or
\* rewritten since) is returned by a claim whose statement runs at any time
\* t > T + lock_timeout; at t = T + lock_timeout exactly the lock still holds.
C4_ReclaimAfterTimeout ==
    ClaimRan =>
        \A i \in op.cand :
            (op.pre[i].locked_at # NoTime /\ op.at > op.pre[i].locked_at + LockTimeout)
                => i \in RetIds

\* a claim returned a row whose lock had expired
C4_Witness ==
    /\ ClaimRan
    /\ \E i \in RetIds :
         op.pre[i].locked_at # NoTime /\ op.at > op.pre[i].locked_at + LockTimeout

\* C5: a claim whose statement ran at time now returns exactly the candidate
\* rows whose locked_at was unset or older than now - lock_timeout, and any
\* claim sets locked_at = now on exactly the rows it returns and leaves the
\* locked_at of every other row as it was.
C5_ClaimExact ==
    op.kind = "claim" =>
        /\ ClaimRan =>
             RetIds = {i \in op.cand : \/ op.pre[i].locked_at = NoTime
                                       \/ op.pre[i].locked_at < op.at - LockTimeout}
        /\ \A i \in DOMAIN store :
             store[i].locked_at = IF i \in RetIds THEN op.at ELSE op.pre[i].locked_at

\* a claim returned some of its candidates and left a locked one out
C5_Witness ==
    /\ ClaimRan
    /\ RetIds # {}
    /\ \E i \in op.cand \ RetIds : store[i].locked_at # NoTime /\ store[i].locked_at # op.at

\* C6: every stored result is the one computed for the message of its own
\* row: reply_body, reply_id, summary, images and post_id of row m are the
\* values produced for the claimed message m.
C6_Attribution ==
    \A i \in DOMAIN store :
        store[i].is_receiver_me = "t" =>
            /\ store[i].reply_body \in {NULL, ReplyFor(i)}
            /\ store[i].reply_id \in {NULL, ReplyRecordId(i)}
            /\ store[i].summary \in {NULL, SummaryFor(i)}
            /\ store[i].images \in {NULL, ImageFor(i)}
            /\ store[i].post_id \in {NULL, PostFor(i)}

\* C7: when some items of a cycle succeed and others fail and the store
\* raises no error, the write-back of the cycle succeeds and stores results.
C7_ItemFailureContained ==
    (/\ op.kind = "end"
     /\ op.failed # {}
     /\ op.claimed \ op.failed # {}
     /\ ~op.dbErr)
        => op.ok /\ op.changed

\* C8: when the write-back of a cycle fails (every item having succeeded)
\* and release_locks does not fail, the cycle changed no field other than
\* locked_at and all the messages it claimed are unlocked when it ends.
C8_WriteBackFailure ==
    (/\ op.kind = "end"
     /\ op.released = "ok"
     /\ op.failed = {}
     /\ ~op.ok)
        => /\ ~op.changed
           /\ \A i \in op.claimed : store[i].locked_at = NoTime

\* the predicate does not start with 'with', has no 'msgs as', or does not
\* end with ')'
Malformed(q) ==
    LET n == Normalize(q) IN
    ~StartsWithWith(n) \/ ~HasMsgsAs(n) \/ ~EndsWithParen(n)

\* C9: a claim that fails, by a failure of the store or by a malformed
\* predicate, returns an empty list and does not raise.
C9_ClaimFailureContained ==
    (op.kind = "claim" /\ (op.dbFail \/ Malformed(op.query)))
        => ~op.raised /\ op.ret = <<>>

\* C10: a successful update changes, in each row, only the fields that a
\* message of the batch with that row's id carries; every other field of the
\* row (locked_at included), every other row and the set of rows stay as
\* they were.
C10_PartialUpdate ==
    (op.kind = "update" /\ op.ok) =>
        /\ DOMAIN store = DOMAIN op.pre
        /\ \A i \in DOMAIN store, f \in RowFields :
             store[i][f] # op.pre[i][f] =>
                 \E k \in DOMAIN op.msgs :
                     /\ op.msgs[k].msg_id = i
                     /\ f \in MsgFields
                     /\ op.msgs[k][f] # NullOf(f)

\* an update carrying only classification changed it on a row whose other
\* fields were set, and they kept their values
C10_Witness ==
    /\ op.kind = "update" /\ op.ok /\ Len(op.msgs) = 1
    /\ LET m == op.msgs[1] IN
       /\ m.msg_id \in DOMAIN op.pre
       /\ m.classification = "story" /\ m.reply_body = NULL /\ m.created_at = NoTime
       /\ op.pre[m.msg_id] = FullRow(1)
       /\ store[m.msg_id] = [FullRow(1) EXCEPT !.classification = "story"]

\* the last call was an update or an upsert during which a write (or the
\* commit) failed
WriteFailed == op.kind \in {"update", "upsert"} /\ op.failAt # 0

\* C11: when a write of an update or upsert batch fails, the call returns
\* False and the store is exactly as before the call, also when writes of the
\* batch were executed before the failing one.
C11_BatchAtomicity == WriteFailed => (~op.ok /\ store = op.pre)

\* the second statement of a batch failed after a first one that changes the
\* table
C11_Witness ==
    /\ WriteFailed /\ ~op.ok
    /\ op.failAt = 2 /\ Len(op.msgs) = 2
    /\ LET m == op.msgs[1] IN
       \/ op.kind = "upsert" /\ m.msg_id \notin DOMAIN op.pre
       \/ /\ m.msg_id \in DOMAIN op.pre
          /\ m.classification = "story"
          /\ op.pre[m.msg_id].classification # "story"

\* message k of the last batch is the only one with its id
Sole(k) == \A j \in DOMAIN op.msgs : op.msgs[j].msg_id = op.msgs[k].msg_id => j = k

\* C12: after a successful upsert, for each message of the batch (the only
\* one with its id) the row with its id exists; each field the message
\* carries has the message's value; each field it does not carry, and
\* locked_at, has the value stored before, or is unset when the row was not
\* stored before. So a message carrying only its id creates an empty row or
\* changes nothing.
C12_UpsertMerge ==
    (op.kind = "upsert" /\ op.ok) =>
        \A k \in DOMAIN op.msgs :
            Sole(k) =>
                LET m == op.msgs[k]
                    i == m.msg_id
                IN  /\ i \in DOMAIN store
                    /\ \A f \in MsgFields :
                         store[i][f] = IF m[f] # NullOf(f) THEN m[f]
                                       ELSE IF i \in DOMAIN op.pre THEN op.pre[i][f]
                                       ELSE NullOf(f)
                    /\ store[i].locked_at =
                         IF i \in DOMAIN op.pre THEN op.pre[i].locked_at ELSE NoTime

\* one upsert created a row from a message carrying only its id and merged
\* a message carrying one field into a row that had every field set
C12_Witness ==
    /\ op.kind = "upsert" /\ op.ok /\ Len(op.msgs) = 2
    /\ LET a == op.msgs[1]
           b == op.msgs[2]
       IN  /\ a.msg_id # b.msg_id
           /\ a.msg_id \notin DOMAIN op.pre /\ Present(a) = {}
           /\ store[a.msg_id] = EmptyRow
           /\ b.msg_id \in DOMAIN op.pre /\ Present(b) = {"reply_body"}
           /\ op.pre[b.msg_id] = FullRow(1)
           /\ store[b.msg_id] = [FullRow(1) EXCEPT !.reply_body = "new"]

\* C13: upserting a batch (in particular a single message) a second time
\* with identical fields succeeds, when the store does not fail, and leaves
\* the table as the first upsert left it.
C13_UpsertIdempotent ==
    (op.kind = "upsert2" /\ op.failAt = 0) => (op.ok /\ store = op.once)

\* a message with a field set was upserted twice into a table that did not
\* hold its id: inserted by the first call, merged by the second
C13_Witness ==
    /\ op.kind = "upsert2" /\ op.failAt = 0 /\ Len(op.msgs) = 1
    /\ op.msgs[1].msg_id \notin DOMAIN op.pre
    /\ op.msgs[1].classification = "story"
    /\ store[op.msgs[1].msg_id].classification = "story"
    /\ store = op.once

\* message k of the last batch carries field f
Carries(k, f) == f \in MsgFields /\ op.msgs[k][f] # NullOf(f)

\* message k of the last batch has no field set besides its id
OnlyId(k) == \A f \in MsgFields : ~Carries(k, f)

SameId(j, k) == op.msgs[j].msg_id = op.msgs[k].msg_id

\* C14: an update batch that holds a message with no non-identity field, and
\* during which the store fails no statement, reports success; that message
\* writes nothing (a field of its row changes only if another message with
\* the same id carries it), and every field carried by another message whose
\* row is stored has the value of the last message carrying it.
C14_EmptyUpdateSkipped ==
    (op.kind = "update" /\ op.failAt = 0 /\ \E k \in DOMAIN op.msgs : OnlyId(k)) =>
        /\ op.ok
        /\ \A k \in DOMAIN op.msgs :
             LET i == op.msgs[k].msg_id IN
             i \in DOMAIN op.pre =>
                 \A f \in RowFields :
                     IF \E j \in DOMAIN op.msgs : SameId(j, k) /\ Carries(j, f)
                     THEN LET last == CHOOSE j \in DOMAIN op.msgs :
                                        /\ SameId(j, k) /\ Carries(j, f)
                                        /\ \A h \in DOMAIN op.msgs :
                                             (SameId(h, k) /\ Carries(h, f)) => h <= j
                          IN  store[i][f] = op.msgs[last][f]
                     ELSE store[i][f] = op.pre[i][f]

\* a batch of a message without fields for one stored row and a message
\* with a field for another stored row: the first row is as before, the
\* second has the field
C14_Witness ==
    /\ op.kind = "update" /\ op.failAt = 0 /\ op.ok /\ Len(op.msgs) = 2
    /\ OnlyId(1) /\ Carries(2, "reply_body") /\ ~SameId(1, 2)
    /\ {op.msgs[1].msg_id, op.msgs[2].msg_id} \subseteq DOMAIN op.pre
    /\ store[op.msgs[1].msg_id] = op.pre[op.msgs[1].msg_id]
    /\ op.pre[op.msgs[2].msg_id].reply_body # "new"
    /\ store[op.msgs[2].msg_id].reply_body = "new"

\* C15: update never creates a row: after any update call the set of stored
\* ids is the one before the call, and every row no message of the batch
\* names is unchanged; so an update naming only ids that are not stored
\* leaves the table unchanged.
C15_UpdateNeverCreates ==
    op.kind = "update" =>
        /\ DOMAIN store = DOMAIN op.pre
        /\ \A i \in DOMAIN op.pre :
             (\A k \in DOMAIN op.msgs : op.msgs[k].msg_id # i) => store[i] = op.pre[i]

\* a successful update carried a field for an id that is not stored, beside
\* a stored row
C15_Witness ==
    /\ op.kind = "update" /\ op.ok /\ op.failAt = 0 /\ Len(op.msgs) = 1
    /\ op.msgs[1].msg_id \notin DOMAIN op.pre
    /\ Carries(1, "classification")
    /\ DOMAIN op.pre # {}
    /\ store = op.pre

\* C16: a release that succeeds sets locked_at to unset on every row whose
\* id is in the input, whatever its locked_at was, and leaves every other
\* row, every non-lock field and the set of rows as they were; a release of
\* an empty input returns success and leaves the table untouched.
C16_ReleaseFrame ==
    op.kind = "release" =>
        /\ op.msgs = <<>> => (op.ok /\ store = op.pre)
        /\ op.ok =>
             /\ DOMAIN store = DOMAIN op.pre
             /\ \A i \in DOMAIN store :
                  store[i] = IF \E k \in DOMAIN op.msgs : op.msgs[k].msg_id = i
                             THEN [op.pre[i] EXCEPT !.locked_at = NoTime]
                             ELSE op.pre[i]

\* of two rows with a live lock the release of one cleared its lock and left
\* the lock of the other
C16_Witness ==
    /\ op.kind = "release" /\ op.ok /\ Len(op.msgs) = 1
    /\ op.msgs[1].msg_id = InboundId(1)
    /\ op.pre = [i \in StoreIds |-> FullRow(1)]
    /\ store[InboundId(1)] = FullRow(NoTime)
    /\ store[InboundId(2)] = FullRow(1)

\* a claim of stage s that runs now on the candidate set cand returns row i
ClaimReturns(i, s, cand) ==
    i \in MsgIdsOf(wrapper(store, StageQuery(s), cand, Columns(s), now, FALSE).ret)

\* every locked row that a stage query selects is returned by a claim of
\* that stage run now
ReclaimableNow(i) ==
    \A s \in Stages : \A cand \in CandidateSets(store, s, now, Limit) :
        i \in cand => ClaimReturns(i, s, cand)

\* the step ends a cycle whose release_locks failed
ReleaseFailedStep == op'.kind = "end" /\ op'.released = "failed"

\* C17 as stated: a cycle whose release failed does not raise, and a locked
\* row is claimable as soon as lock_timeout has elapsed since its locked_at
\* (now >= locked_at + lock_timeout).
C17_ReclaimOnceElapsed ==
    /\ (op.kind = "end" /\ op.released = "failed") => ~op.raised
    /\ \A i \in DOMAIN store :
         (store[i].locked_at # NoTime /\ now >= store[i].locked_at + LockTimeout)
             => ReclaimableNow(i)

\* C17 amended: when the store fails during release, the cycle ends without
\* raising and returns the result of its write-back, locked_at of every row
\* stays as it was, and each locked row is returned by any claim that
\* selects it once more than lock_timeout has elapsed since its locked_at
\* (now > locked_at + lock_timeout).
C17_ReleaseFailure ==
    /\ [][ReleaseFailedStep =>
            /\ ~op'.raised
            /\ op'.ok = r[op'.w]
            /\ DOMAIN store' = DOMAIN store
            /\ \A i \in DOMAIN store : store'[i].locked_at = store[i].locked_at]_vars
    /\ [](\A i \in DOMAIN store :
            (store[i].locked_at # NoTime /\ now > store[i].locked_at + LockTimeout)
                => ReclaimableNow(i))

\* the release of a cycle has just failed, the row is still locked, more
\* than lock_timeout has passed since it was locked, and a claim returns it
C17_Witness ==
    /\ op.kind = "end" /\ op.released = "failed" /\ ~op.raised
    /\ \E i \in op.claimed :
         /\ store[i].locked_at # NoTime
         /\ now > store[i].locked_at + LockTimeout
         /\ \E s \in Stages : \E cand \in CandidateSets(store, s, now, Limit) :
              i \in cand /\ ClaimReturns(i, s, cand)

\* x is among the results
Among(x, results) == \E i \in DOMAIN results : results[i] = x

\* the results in another order
Permute(results, o) == [i \in DOMAIN results |-> results[o[i]]]

\* C18: when pass 0 ran without exception and none of its four results is
\* None, multi_pass returns spam if a result is spam; else instruction if
\* present; else inquiry if present; else goes on to pass 1 if story is
\* present; else returns other; and the decision is the same for the four
\* results in any order.
C18_Pass0Precedence ==
    (op.kind = "pass0" /\ ~op.exc /\ ~Among(NULL, op.p0)) =>
        /\ op.out = CASE Among("spam", op.p0) -> "spam"
                      [] ~Among("spam", op.p0) /\ Among("instruction", op.p0)
                           -> "instruction"
                      [] /\ ~Among("spam", op.p0) /\ ~Among("instruction", op.p0)
                         /\ Among("inquiry", op.p0) -> "inquiry"
                      [] /\ ~Among("spam", op.p0) /\ ~Among("instruction", op.p0)
                         /\ ~Among("inquiry", op.p0) /\ Among("story", op.p0) -> "pass1"
                      [] OTHER -> "other"
        /\ \A o \in Orders(4) : Pass0(Permute(op.p0, o)) = Pass0(op.p0)
        /\ (op.out = "pass1") = ENABLED ClassifyPass1

\* instruction, inquiry, spam and story were all answered: spam wins
C18_Witness ==
    /\ op.kind = "pass0" /\ ~op.exc
    /\ op.p0 = <<"instruction", "inquiry", "spam", "story">>
    /\ op.out = "spam"

\* C19: when pass 1 ran without exception and none of its three results is
\* None, multi_pass returns illegal if present; else banned if present; else
\* boring if present; else story. multi_pass never returns safe or
\* interesting.
C19_Pass1Precedence ==
    /\ op.kind \in {"pass0", "pass1"} => op.out \notin {"safe", "interesting"}
    /\ (op.kind = "pass1" /\ ~op.exc /\ ~Among(NULL, op.p1)) =>
          op.out = CASE Among("illegal", op.p1) -> "illegal"
                     [] ~Among("illegal", op.p1) /\ Among("banned", op.p1) -> "banned"
                     [] /\ ~Among("illegal", op.p1) /\ ~Among("banned", op.p1)
                        /\ Among("boring", op.p1) -> "boring"
                     [] OTHER -> "story"

\* banned, illegal and boring were all answered: illegal wins
C19_Witness ==
    /\ op.kind = "pass1" /\ ~op.exc
    /\ op.p1 = <<"banned", "illegal", "boring">>
    /\ op.out = "illegal"

\* C20: when one of the four results of pass 0 is None, multi_pass returns
\* None whatever the other results are, and pass 1 is not run; when one of
\* the three results of pass 1 is None, multi_pass returns None whatever the
\* other results are.
C20_FailureUndetermined ==
    /\ (op.kind = "pass0" /\ Among(NULL, op.p0)) =>
          (op.out = NULL /\ ~ENABLED ClassifyPass1)
    /\ op.kind = "pass1" =>
          /\ ~Among(NULL, op.p0)
          /\ Among(NULL, op.p1) => op.out = NULL

\* spam was answered while another sub-classifier failed: no classification
C20_Witness ==
    /\ op.kind = "pass0" /\ ~op.exc
    /\ op.p0 = <<NULL, "inquiry", "spam", "other">>
    /\ op.out = NULL

-----------------------------------------------------------------------------
(* The candidate queries *)

\* the inbound messages of the sender of row i that lie in the lookback window
\* at second t and carry a classification of the set ex
Flagged(st, i, t, ex) ==
    {j \in DOMAIN st : /\ st[j].sender = st[i].sender
                       /\ st[j].is_receiver_me = "t"
                       /\ st[j].created_at # NoTime /\ t - Lookback < st[j].created_at
                       /\ st[j].classification \in ex}

\* C21: in a claim of Classify, Reply-generate or Summary-generate, a sender
\* with an inbound message inside the lookback window whose classification is
\* in the stage's exclusion set has none of its messages returned
C21_ExclusionCohort ==
    (op.kind = "claim" /\ op.stage \in {"classify", "reply", "summarize"}) =>
        \A k \in DOMAIN op.ret :
            Flagged(op.pre, op.ret[k].msg_id, op.at, ExSet(op.stage)) = {}

\* a Reply-generate claim found an unreplied inquiry of a sender who was
\* banned inside the window, and returned nothing
C21_Witness ==
    /\ op.kind = "claim" /\ op.stage = "reply" /\ op.ret = <<>>
    /\ \E i \in DOMAIN op.pre :
         /\ op.pre[i].classification = "inquiry" /\ op.pre[i].reply_body = NULL
         /\ op.pre[i].is_receiver_me = "t" /\ op.at - Lookback < op.pre[i].created_at
         /\ \E j \in Flagged(op.pre, i, op.at, ExSet("reply")) :
              op.pre[j].classification = "banned"

\* C22: after a Classify cycle that claimed an inbound unclassified message
\* for which the classifier returned a result, and whose write-back and
\* release went through, the message's classification is set and its
\* locked_at is unset, and a Classify claim run at once does not return it
C22_ClassifyEndToEnd ==
    (op.kind = "end" /\ op.stage = "classify" /\ op.ok /\ op.released = "ok") =>
        \A i \in op.claimed \ op.failed :
            /\ store[i].classification # NULL
            /\ store[i].locked_at = NoTime
            /\ \A cand \in CandidateSets(store, "classify", now, Limit) :
                 ~ClaimReturns(i, "classify", cand)

\* a Classify cycle ended well with a classified message while another
\* message is still waiting to be classified
C22_Witness ==
    /\ op.kind = "end" /\ op.stage = "classify" /\ op.ok /\ op.released = "ok"
    /\ op.claimed \ op.failed # {}
    /\ \E j \in DOMAIN store, cand \in CandidateSets(store, "classify", now, Limit) :
         ClaimReturns(j, "classify", cand)

\* row j is an inbound message inside the lookback window at second t whose
\* classification is in the allow-set of Reply-generate and whose sender is
\* not excluded
Qualifies(st, j, t) ==
    /\ st[j].is_receiver_me = "t"
    /\ st[j].created_at # NoTime /\ t - Lookback < st[j].created_at
    /\ st[j].classification \in AnySet("reply")
    /\ Flagged(st, j, t, ExSet("reply")) = {}

\* C23: a Reply-generate claim returns at most one message per sender; a
\* returned message qualifies, has no reply_body, and no qualifying message
\* of its sender is newer, so an older unreplied message is never returned
\* while a later qualifying one exists
C23_ReplySelection ==
    (op.kind = "claim" /\ op.stage = "reply") =>
        /\ \A k1, k2 \in DOMAIN op.ret :
             op.pre[op.ret[k1].msg_id].sender = op.pre[op.ret[k2].msg_id].sender
                => k1 = k2
        /\ \A k \in DOMAIN op.ret :
             LET i == op.ret[k].msg_id IN
             /\ Qualifies(op.pre, i, op.at)
             /\ op.pre[i].reply_body = NULL
             /\ \A j \in DOMAIN op.pre :
                  (Qualifies(op.pre, j, op.at) /\ op.pre[j].sender = op.pre[i].sender)
                     => op.pre[j].created_at <= op.pre[i].created_at

\* the sender's newest qualifying message has a reply and an older one has
\* none: the claim returned nothing
C23_Witness ==
    /\ op.kind = "claim" /\ op.stage = "reply" /\ op.ret = <<>>
    /\ \E i, j \in DOMAIN op.pre :
         /\ Qualifies(op.pre, i, op.at) /\ Qualifies(op.pre, j, op.at)
         /\ op.pre[i].sender = op.pre[j].sender
         /\ op.pre[i].created_at < op.pre[j].created_at
         /\ op.pre[i].reply_body = NULL /\ op.pre[j].reply_body # NULL

\* C24 as stated: every message a claim returns carries every stored field of
\* its row with the value the row holds
C24_FullRowReturned ==
    op.kind = "claim" =>
        \A k \in DOMAIN op.ret : \A f \in MsgFields :
            op.ret[k][f] = op.pre[op.ret[k].msg_id][f]

-----------------------------------------------------------------------------
(* The service loops *)

\* a loop is about to call the function of stage s
Starting(s) == \E l \in DOMAIN loop : loop[l].pos = s /\ pc[l] = "idle"

\* a cycle of stage s has claimed messages and has not ended
InFlight(s) == \E l \in DOMAIN loop : pc[l] # "idle" /\ stage[l] = s

\* a task has not entered its loop or has left it
Halted == \E l \in DOMAIN loop : loop[l].pos \in {"me", "done", "dead"}

\* C25 as stated: every stage has a loop of its own, so while the cycles of
\* one stage keep starting, the cycles of every other stage keep starting
\* too, whatever the cycles of the other stages do; only a cycle of the
\* stage itself that never returns, or a task that is not running its loop,
\* can end them
C25_StageIndependence ==
    \A s, t \in Stages :
        ([]<>Starting(t)) => (([]<>Starting(s)) \/ (<>[]InFlight(s)) \/ (<>[]Halted))

\* the step ends a cycle of loop l that failed: it raised, or returned False
FailedCycle(l) == op'.kind = "end" /\ op'.w = l /\ (op'.raised \/ ~op'.ok)

\* C26: no failure inside a stage cycle ends a loop: after a cycle that
\* raised the loop sleeps, after one that returned False it goes on to the
\* statement that follows, and a sleeping loop runs its next iteration
C26_FailureContained ==
    /\ [][\A l \in DOMAIN loop :
            FailedCycle(l) =>
                loop'[l].pos = IF op'.raised THEN "sleep" ELSE After(op'.stage)]_vars
    /\ \A l \in Loops : (loop[l].pos = "sleep") ~> (loop[l].pos = First(l))

\* a Reply-generate cycle of the agent loop raised and the loop sleeps
C26_Witness ==
    /\ op.kind = "end" /\ op.raised /\ op.w = "agent"
    /\ loop["agent"].pos = "sleep"

\* row i, held by the cycle of loop l when l was cancelled, is unlocked, or
\* was claimed again since, or is returned by any claim that selects it
FreeAgain(l, i) ==
    \/ store[i].locked_at = NoTime
    \/ store[i].locked_at > loop[l].at
    \/ ReclaimableNow(i)

-----------------------------------------------------------------------------
(* Progress of a message *)

\* C28: no step (claim, release, update, upsert, the steps of the stage
\* cycles of two workers in any interleaving) removes a row or changes a set
\* field among classification, reply_body, reply_id, summary, images and
\* post_id back to unset
C28_MonotonicProgress ==
    [][\A i \in DOMAIN store : \A f \in ResultFields :
          store[i][f] # NULL => (i \in DOMAIN store' /\ store'[i][f] # NULL)]_vars

\* a Reply-send cycle has written reply_id on a row whose classification and
\* reply_body earlier cycles had set
C28_Witness ==
    /\ op.kind = "end" /\ op.stage = "send"
    /\ \E i \in op.claimed :
         /\ store[i].classification # NULL
         /\ store[i].reply_body # NULL
         /\ store[i].reply_id # NULL

-----------------------------------------------------------------------------
(* Duplicate work *)

\* every worker inside a cycle claimed no longer than lock_timeout ago
NoOverrun ==
    \A w \in DOMAIN pc : pc[w] # "idle" => now - claimed_at[w] <= LockTimeout

\* no message is in the batches of two cycles of the same stage that are
\* both under way
NoOverlap ==
    \A w, v \in DOMAIN pc :
        (w # v /\ pc[w] # "idle" /\ pc[v] # "idle" /\ stage[w] = stage[v])
            => Held(w) \cap Held(v) = {}

\* C29: if every worker always ends its cycle within lock_timeout of its
\* claim, no message is ever processed by two cycles of the same stage at
\* overlapping times; two such cycles overlap only after a worker was still
\* processing when its lock had expired
C29_NoDuplicateWithinTimeout == ([]NoOverrun) => ([]NoOverlap)

\* two cycles of the same stage hold the same message: the first is still
\* processing after its lock expired
C29_Witness ==
    \E w, v \in DOMAIN pc :
        /\ w # v /\ pc[w] # "idle" /\ pc[v] # "idle" /\ stage[w] = stage[v]
        /\ Held(w) \cap Held(v) # {}
        /\ now - claimed_at[w] > LockTimeout
        /\ now - claimed_at[v] <= LockTimeout

-----------------------------------------------------------------------------
(* The passes of the classifier *)

\* the four results of pass 0 are there, none failed, none is spam,
\* instruction or inquiry, and one is story
StoryOutcome(results) ==
    /\ ~Among(NULL, results)
    /\ ~Among("spam", results) /\ ~Among("instruction", results)
    /\ ~Among("inquiry", results)
    /\ Among("story", results)

ClassifierRan == op.kind \in {"pass0", "pass1"}

\* the sub-classifiers of pass 1 run only after all four of pass 0 ran and
\* gave a story outcome, and none of them runs twice
Pass1AfterStory ==
    /\ \A k \in DOMAIN op.calls1 : op.calls1[k] <= 1
    /\ (\E k \in DOMAIN op.calls1 : op.calls1[k] > 0) =>
          /\ op.kind = "pass1"
          /\ StoryOutcome(op.p0)
          /\ \A k \in DOMAIN op.calls0 : op.calls0[k] = 1

\* C30 as stated: pass 1 is invoked only after a story outcome of the four
\* sub-classifications of pass 0, each sub-classifier of pass 0 is invoked
\* exactly once and each of pass 1 at most once
C30_ExactlyOnce ==
    ClassifierRan =>
        /\ Pass1AfterStory
        /\ \A k \in DOMAIN op.calls0 : op.calls0[k] = 1

\* C30: pass 1 is invoked only after a story outcome of the four
\* sub-classifications of pass 0; no sub-classifier is invoked more than
\* once, whatever it returned; each sub-classifier of pass 0 is invoked
\* exactly once unless get_tasks raises, and then none of them is
C30_PassOrderNoRetry ==
    ClassifierRan =>
        /\ Pass1AfterStory
        /\ \A k \in DOMAIN op.calls0 : op.calls0[k] <= 1
        /\ (op.kind = "pass0" /\ ~op.exc) => \A k \in DOMAIN op.calls0 : op.calls0[k] = 1
        /\ (op.kind = "pass0" /\ op.exc) => \A k \in DOMAIN op.calls0 : op.calls0[k] = 0

\* a sub-classifier of pass 1 failed after a story outcome of pass 0: each
\* sub-classifier ran once and multi_pass returned no classification
C30_Witness ==
    /\ op.kind = "pass1" /\ ~op.exc
    /\ Among(NULL, op.p1)
    /\ op.out = NULL
    /\ \A k \in DOMAIN op.calls1 : op.calls1[k] = 1

-----------------------------------------------------------------------------
(* The frame of a claim *)

\* C31: a claim changes no stored field other than locked_at, changes
\* locked_at only on rows of the candidate set of its stage, creates and
\* deletes no row, and changes nothing at all when it returns an empty list
C31_ClaimFrame ==
    op.kind = "claim" =>
        /\ DOMAIN store = DOMAIN op.pre
        /\ NonLock(store) = NonLock(op.pre)
        /\ \A i \in DOMAIN op.pre :
             store[i].locked_at # op.pre[i].locked_at => i \in op.cand
        /\ op.ret = <<>> => store = op.pre

\* a claim returned messages and left alone an unlocked row that matches the
\* rule of its stage but is not among the `limit` oldest
C31_Witness ==
    /\ ClaimRan
    /\ RetIds # {}
    /\ \E i \in DOMAIN op.pre \ op.cand :
         /\ op.pre[i].locked_at = NoTime
         /\ op.pre[i].classification = op.pre[CHOOSE j \in RetIds : TRUE].classification
         /\ store[i] = op.pre[i]

-----------------------------------------------------------------------------
(* The batch limit *)

\* the stages whose query orders by created_at before the limit
OrderedStages == {"classify", "summarize", "send", "share"}

\* the rows that match the rule of stage s at second t
Matches(st, s, t) ==
    CASE s = "classify"  -> ToClassify(st, t)
      [] s = "summarize" -> ToSummarize(st, t)
      [] s = "send"      -> ToSend(st)
      [] s = "share"     -> ToShare(st)
      [] s = "reply"     ->
           UNION {{i \in D : st[i].reply_body = NULL} :
                    D \in LatestPerSender(st, ReplyPool(st, t))}

\* C32: a claim returns at most `limit` messages; for Classify,
\* Summary-generate, Reply-send and Summary-share the candidate set is made of
\* the `limit` oldest rows that match the rule of the stage (all of them when
\* fewer match), so no returned message is newer than a matching row outside
\* the candidate set
C32_BatchLimit ==
    op.kind = "claim" =>
        /\ Len(op.ret) <= op.limit
        /\ \A k1, k2 \in DOMAIN op.ret : op.ret[k1].msg_id = op.ret[k2].msg_id => k1 = k2
        /\ op.stage \in OrderedStages =>
             LET M == Matches(op.pre, op.stage, op.at) IN
             /\ op.cand \subseteq M
             /\ Cardinality(op.cand) = Min(op.limit, Cardinality(M))
             /\ RetIds \subseteq op.cand
             /\ \A k \in DOMAIN op.ret : \A b \in M \ op.cand :
                  op.pre[op.ret[k].msg_id].created_at <= op.pre[b].created_at

\* a claim returned `limit` messages and left out a newer unlocked row that
\* matches the rule of its stage
C32_Witness ==
    /\ ClaimRan
    /\ op.stage \in OrderedStages
    /\ Len(op.ret) = op.limit
    /\ \E b \in Matches(op.pre, op.stage, op.at) \ op.cand :
         /\ op.pre[b].locked_at = NoTime
         /\ \E k \in DOMAIN op.ret : op.pre[op.ret[k].msg_id].created_at < op.pre[b].created_at

-----------------------------------------------------------------------------
(* Release and the locks of other workers *)

\* worker w ends its cycle with release_locks
Releases(w) == pc[w] = "release" /\ pc'[w] = "idle"

\* row i of the batch of w carries a live lock set by a claim later than the
\* claim of w: another worker claimed it after the lock of w had expired
RelockedByOther(w, i) ==
    /\ i \in Held(w)
    /\ store[i].locked_at > claimed_at[w]
    /\ Live(store[i].locked_at, now)

\* C33 as stated: the release of a worker leaves the locked_at of a row that
\* another worker claimed after the lock of the first had expired as that
\* worker set it, so the row stays locked while that lock is live
C33_ReleaseKeepsOtherLock ==
    [][\A w \in DOMAIN pc : \A i \in DOMAIN store :
          (Releases(w) /\ RelockedByOther(w, i))
              => store'[i].locked_at = store[i].locked_at]_vars

-----------------------------------------------------------------------------
(* Stability of the classification *)

\* C34 as stated: once the classification of a stored message is set, no
\* step changes it to another value, the write-back of a Classify cycle
\* whose lock on the message had expired included
C34_ClassificationStable ==
    [][\A i \in DOMAIN store :
          store[i].classification # NULL
              => store'[i].classification = store[i].classification]_vars

-----------------------------------------------------------------------------
(* Liveness of Classify *)

\* row i of the table st is unlocked at second t, or its lock has expired
Available(st, i, t) == st[i].locked_at = NoTime \/ st[i].locked_at < t - LockTimeout

\* a claim of stage s that the worker made now would return a message
Pending(s) ==
    /\ pc["A"] = "idle"
    /\ \E cand \in CandidateSets(store, s, now, Limit) :
         \E i \in cand : Available(store, i, now)

\* the worker has just claimed messages of stage s
Claimed(s) == pc["A"] = "run" /\ stage["A"] = s

\* the loops call the function of stage s again and again: if its claim
\* would return a message again and again, it does so again and again
KeepsClaiming(s) == (<>[]~Pending(s)) \/ ([]<>Claimed(s))

\* message i is inbound, unclassified, inside the lookback window, of a
\* sender that is not excluded, and the classifier would return a result for it
Waiting(i) == i \in ToClassify(store, now) /\ store[i].body # Unreadable

\* C35 as stated: with repeated Classify cycles every such message is
\* eventually classified (or its sender excluded by a classification in
\* between), also when `limit` older messages fail in every cycle
C35_ClassifyLiveness ==
    KeepsClaiming("classify") => \A i \in StarveIds : Waiting(i) ~> ~Waiting(i)

-----------------------------------------------------------------------------
(* Available work *)

\* C36 as stated: a claim made while a row that matches the rule of its stage
\* is unlocked or carries an expired lock returns at least one message, also
\* when `limit` older matching rows carry live locks
C36_ClaimFindsWork ==
    ClaimRan =>
        ((\E i \in Matches(op.pre, op.stage, op.at) : Available(op.pre, i, op.at))
            => op.ret # <<>>)

-----------------------------------------------------------------------------
(* Quiescence of the pipeline *)

\* no claim of any stage, run now, returns a message
Quiet ==
    \A s \in Stages : \A cand \in CandidateSets(store, s, now, Limit) :
        wrapper(store, StageQuery(s), cand, Columns(s), now, FALSE).ret = <<>>

\* C37 as stated: without ingestion and without failures, under fair repeated
\* cycles of the five stages, the pipeline reaches and stays in a state in
\* which the claim of every stage returns no message
C37_Quiescence == (\A s \in Stages : KeepsClaiming(s)) => <>[]Quiet

-----------------------------------------------------------------------------
(* Outbound records *)

\* row i is not addressed to this process: is_receiver_me is false or unset
Outbound(i) == store[i].is_receiver_me # "t"

\* C38: a stored message whose is_receiver_me is false or unset, the records
\* of the replies that Reply-send upserts included, has no classification,
\* no reply_body and no summary, is never locked, and is in the batch of no
\* claim of any of the five stages
C38_OutboundUntouched ==
    /\ \A i \in DOMAIN store :
         Outbound(i) =>
             /\ store[i].classification = NULL
             /\ store[i].reply_body = NULL
             /\ store[i].summary = NULL
             /\ store[i].locked_at = NoTime
    /\ \A w \in DOMAIN pc : \A i \in Held(w) : i \in DOMAIN store /\ ~Outbound(i)

\* the record of a sent reply is stored next to the message it answers, and
\* a worker has claimed a message while the record is there
C38_Witness ==
    \E i \in DOMAIN store :
        /\ Outbound(i)
        /\ store[i].sender = Me /\ store[i].body # NULL
        /\ \E w \in DOMAIN pc : pc[w] # "idle" /\ Held(w) # {}

====
